---- MODULE Spec2Model ----
(***************************************************************************)
(* A model of coolcache, a Redis-compatible in-memory key/value server:    *)
(* the wire codec, the typed keyspace with lazy expiry, the connection     *)
(* handler, primary->replica propagation with WAIT, and the stream index.  *)
(*                                                                         *)
(* Text is modelled as a sequence of characters, a character being a       *)
(* one-character string; "U+E9" stands for a non-ASCII character whose     *)
(* UTF-8 encoding is the two bytes "xC3" "xA9".  A byte string is a        *)
(* sequence of bytes; the byte of an ASCII character is that character.    *)
(***************************************************************************)
EXTENDS Integers, Sequences, FiniteSets, TLC

VARIABLES
    \* ---- the primary's store: AsyncServer.memory, .expiration,
    \* .changes_since_last_save, the clock time.time(), and the last command
    \* handled: its text, the store and clock it found, and its reply
    memory, expiration, changes, now, request, before, reply,
    \* ---- replication: AsyncServer.writers and .numacks, the bytes written to each
    \* connection's writer by the propagation and GETACK loops, each task's position
    \* and last reply, the transports that are paused (drain() blocks), and the log
    \* of commands the primary applied
    writers, numacks, wire, task, paused, applied,
    \* ---- the connection handler run on two servers fed the same commands in
    \* different socket reads
    script, run,
    \* ---- wire codec under test: the command vectors, their encoding, the parse
    codecIn, codecBuf, codecOut,
    \* ---- AsyncServer.streamstore, the ids in insertion order, the last stream
    \* command handled: its reply, its text and the streamstore it found, and the
    \* task of a connection that sends XREAD
    streamstore, xlog, xreply, xrequest, xbefore, xtask,
    \* ---- snapshots: the input of the snapshot functions under test, the bytes
    \* written and what is read back; AsyncServer.last_save_time, its
    \* _auto_save_task, and the count of mutating commands since the last save
    rdbIn, rdbFile, rdbOut, last_save_time, autosave, mutations,
    \* ---- a replica: its startup coroutine AsyncServer.create, the bytes in
    \* flight to its master (up) and from it (down), and the handler of its
    \* connection to the master
    boot, up, down, link

kvVars == <<memory, expiration, changes, now, request, before, reply>>
replVars == <<writers, numacks, wire, task, paused, applied>>
connVars == <<script, run>>
codecVars == <<codecIn, codecBuf, codecOut>>
streamVars == <<streamstore, xlog, xreply, xrequest, xbefore, xtask>>
saveVars == <<rdbIn, rdbFile, rdbOut, last_save_time, autosave, mutations>>
bootVars == <<boot, up, down, link>>
vars == <<kvVars, replVars, connVars, codecVars, streamVars, saveVars, bootVars>>

(***************************************************************************)
(* Generic helpers                                                         *)
(***************************************************************************)
RECURSIVE Flatten(_)
Flatten(ss) == IF ss = <<>> THEN <<>> ELSE Head(ss) \o Flatten(Tail(ss))

Reverse(s) == [i \in 1..Len(s) |-> s[Len(s) + 1 - i]]

\* All sequences over S of length at most n.
SeqsUpTo(S, n) == UNION {[1..m -> S] : m \in 0..n}

CR == "\r"
LF == "\n"
CRLF == <<CR, LF>>

DigitChars == <<"0", "1", "2", "3", "4", "5", "6", "7", "8", "9">>
IsDigit(c) == \E i \in 1..10 : DigitChars[i] = c
DigitVal(c) == (CHOOSE i \in 1..10 : DigitChars[i] = c) - 1

\* str(n) for an integer n.
RECURSIVE DecNat(_)
DecNat(n) == IF n < 10 THEN <<DigitChars[n + 1]>>
             ELSE DecNat(n \div 10) \o <<DigitChars[(n % 10) + 1]>>
Dec(n) == IF n < 0 THEN <<"-">> \o DecNat(0 - n) ELSE DecNat(n)

\* int(s): an optional minus sign and at least one digit; anything else raises
\* ValueError.
RECURSIVE NatOf(_, _)
NatOf(s, acc) == IF s = <<>> THEN acc
                 ELSE NatOf(Tail(s), 10 * acc + DigitVal(Head(s)))
AllDigits(s) == s # <<>> /\ \A i \in 1..Len(s) : IsDigit(s[i])
IsInt(s) == \/ AllDigits(s)
            \/ (s # <<>> /\ Head(s) = "-" /\ AllDigits(Tail(s)))
IntOf(s) == IF Head(s) = "-" THEN 0 - NatOf(Tail(s), 0) ELSE NatOf(s, 0)

(***************************************************************************)
(* UTF-8: str.encode() and bytes.decode('utf-8')                           *)
(***************************************************************************)
WideChar == "U+E9"
WideBytes == <<"xC3", "xA9">>

Utf8Char(c) == IF c = WideChar THEN WideBytes ELSE <<c>>
Utf8Encode(s) == Flatten([i \in 1..Len(s) |-> Utf8Char(s[i])])

\* Whether the bytes decode; a lone lead or continuation byte raises
\* UnicodeDecodeError (a ValueError).
Utf8Valid(b) ==
    \A i \in 1..Len(b) :
        /\ b[i] = WideBytes[1] => (i < Len(b) /\ b[i + 1] = WideBytes[2])
        /\ b[i] = WideBytes[2] => (i > 1 /\ b[i - 1] = WideBytes[1])
\* The text of bytes that decode: each two-byte sequence is one character.
Utf8Lead(b) == SelectSeq(b, LAMBDA c : c # WideBytes[2])
Utf8Decode(b) ==
    [i \in 1..Len(Utf8Lead(b)) |->
        IF Utf8Lead(b)[i] = WideBytes[1] THEN WideChar ELSE Utf8Lead(b)[i]]

(***************************************************************************)
(* encoding_utils.encode_redis_protocol                                    *)
(***************************************************************************)
\* f"${len(element)}\r\n{element}\r\n": the length is the number of characters.
EncodeElement(e) == <<"$">> \o Dec(Len(e)) \o CRLF \o e \o CRLF

EncodeText(data) ==
    <<"*">> \o Dec(Len(data)) \o CRLF
        \o Flatten([i \in 1..Len(data) |-> EncodeElement(data[i])])

encode_redis_protocol(data) == Utf8Encode(EncodeText(data))

(***************************************************************************)
(* encoding_utils.parse_redis_protocol                                     *)
(***************************************************************************)
\* bytes.split(b'\r\n')
RECURSIVE SplitFrom(_, _, _)
SplitFrom(data, start, seps) ==
    IF seps = {} THEN <<SubSeq(data, start, Len(data))>>
    ELSE LET i == CHOOSE j \in seps : \A h \in seps : j <= h
         IN <<SubSeq(data, start, i - 1)>> \o SplitFrom(data, i + 2, seps \ {i})
SplitCRLF(data) ==
    SplitFrom(data, 1, {i \in 1..(Len(data) - 1) : data[i] = CR /\ data[i + 1] = LF})

HasStar(data) == \E i \in 1..Len(data) : data[i] = "*"
\* data[data.index(b'*'):]
FromStar(data) ==
    LET i == CHOOSE j \in 1..Len(data) :
                 data[j] = "*" /\ \A h \in 1..(j - 1) : data[h] # "*"
    IN SubSeq(data, i, Len(data))

ParseError == [ok |-> FALSE, commands |-> <<>>, lengths |-> <<>>]

\* The inner "for _ in range(num_elements)" loop.  idx is the 1-based index into
\* parts; reading parts[idx] beyond the end raises IndexError.
RECURSIVE ParseElements(_, _, _, _, _)
ParseElements(parts, idx, remaining, elements, offset) ==
    IF remaining <= 0
    THEN [ok |-> TRUE, idx |-> idx, elements |-> elements, offset |-> offset]
    ELSE IF idx > Len(parts)
    THEN [ok |-> FALSE, idx |-> idx, elements |-> elements, offset |-> offset]
    ELSE IF parts[idx] # <<>> /\ parts[idx][1] = "$"
    THEN IF \/ ~IsInt(Tail(parts[idx]))
            \/ idx + 1 > Len(parts)
            \/ ~Utf8Valid(parts[idx + 1])
         THEN [ok |-> FALSE, idx |-> idx, elements |-> elements, offset |-> offset]
         ELSE LET element_length == IntOf(Tail(parts[idx]))
              IN ParseElements(parts, idx + 2, remaining - 1,
                     Append(elements, Utf8Decode(parts[idx + 1])),
                     offset + Len(Dec(element_length)) + 3 + element_length + 2)
    ELSE ParseElements(parts, idx, remaining - 1, elements, offset)

\* The outer "while index < len(parts) - 1" loop.
RECURSIVE ParseLoop(_, _, _, _)
ParseLoop(parts, idx, commands, lengths) ==
    IF idx >= Len(parts)
    THEN [ok |-> TRUE, commands |-> commands, lengths |-> lengths]
    ELSE IF parts[idx] # <<>> /\ parts[idx][1] = "*"
    THEN IF ~IsInt(Tail(parts[idx]))
         THEN ParseError
         ELSE LET num_elements == IntOf(Tail(parts[idx]))
                  r == ParseElements(parts, idx + 1, num_elements, <<>>,
                                     Len(Dec(num_elements)) + 3)
              IN IF ~r.ok THEN ParseError
                 ELSE ParseLoop(parts, r.idx, Append(commands, r.elements),
                                Append(lengths, r.offset))
    ELSE ParseLoop(parts, idx + 1, commands, lengths)

\* Returns (commands, lengths); ([], []) on IndexError or ValueError.
parse_redis_protocol(data) ==
    IF ~HasStar(data) THEN ParseError
    ELSE ParseLoop(SplitCRLF(FromStar(data)), 1, <<>>, <<>>)

(***************************************************************************)
(* utils/constants.py and the texts of the protocol                        *)
(***************************************************************************)
NOT_FOUND_RESPONSE == <<"$", "-", "1", CR, LF>>
NIL_RESPONSE == <<"+", "n", "i", "l", CR, LF>>
OK_RESPONSE == <<"+", "O", "K", CR, LF>>
\* The fixed error texts are single tokens followed by CRLF; no stored value can
\* equal them, as the parser never yields a value holding CR LF.
WRONG_TYPE_RESPONSE ==
    <<"-WRONGTYPE Operation against a key holding the wrong kind of value", CR, LF>>
NON_INT_ERROR == <<"-ERR value is not an integer or out of range", CR, LF>>
SYNTAX_ERROR == <<"-ERR syntax error", CR, LF>>
FLOAT_ERROR_MESSAGE == <<"-ERR value is not a valid float", CR, LF>>
EMPTY_ARRAY_RESPONSE == <<"+(empty array)">>
SET_ARITY_ERROR == <<"-ERR wrong number of arguments for 'set' command", CR, LF>>
MSET_ARITY_ERROR == <<"-ERR wrong number of arguments for MSET", CR, LF>>
UNKNOWN_COMMAND == <<"-ERR unknown command", CR, LF>>
\* What the model records as the reply of a handler that raised: nothing is
\* written and the connection's task ends.
EXCEPTION == <<"<exception>">>
NoReply == <<>>

IntReply(n) == <<":">> \o Dec(n) \o CRLF
Bulk(s) == <<"$">> \o Dec(Len(s)) \o CRLF \o s \o CRLF

LowerChars == <<"a", "b", "c", "d", "e", "f", "g", "h", "i", "j", "k", "l", "m",
                "n", "o", "p", "q", "r", "s", "t", "u", "v", "w", "x", "y", "z">>
UpperChars == <<"A", "B", "C", "D", "E", "F", "G", "H", "I", "J", "K", "L", "M",
                "N", "O", "P", "Q", "R", "S", "T", "U", "V", "W", "X", "Y", "Z">>
\* str.upper() and str.lower(), character by character.
CasePairs == {<<LowerChars[i], UpperChars[i]>> : i \in 1..26}
UpperChar(c) == IF \E p \in CasePairs : p[1] = c
                THEN (CHOOSE p \in CasePairs : p[1] = c)[2]
                ELSE c
LowerChar(c) == IF \E p \in CasePairs : p[2] = c
                THEN (CHOOSE p \in CasePairs : p[2] = c)[1]
                ELSE c
Upper(s) == [i \in 1..Len(s) |-> UpperChar(s[i])]
Lower(s) == [i \in 1..Len(s) |-> LowerChar(s[i])]

\* The texts the handlers compare their arguments with: the keys of
\* AsyncRequestHandler.command_map and the option and subcommand words.
T ==
    [ PX |-> <<"P", "X">>, SET |-> <<"S", "E", "T">>,
      INCRBY |-> <<"I", "N", "C", "R", "B", "Y">>,
      BEFORE |-> <<"b", "e", "f", "o", "r", "e">>,
      AFTER |-> <<"a", "f", "t", "e", "r">>, NX |-> <<"N", "X">>,
      XX |-> <<"X", "X">>, GT |-> <<"G", "T">>, LT |-> <<"L", "T">>,
      CH |-> <<"C", "H">>, INCR |-> <<"I", "N", "C", "R">>,
      GET |-> <<"G", "E", "T">>, MSET |-> <<"M", "S", "E", "T">>,
      MGET |-> <<"M", "G", "E", "T">>, DECR |-> <<"D", "E", "C", "R">>,
      DECRBY |-> <<"D", "E", "C", "R", "B", "Y">>,
      APPEND |-> <<"A", "P", "P", "E", "N", "D">>,
      LPUSH |-> <<"L", "P", "U", "S", "H">>, RPUSH |-> <<"R", "P", "U", "S", "H">>,
      LPUSHX |-> <<"L", "P", "U", "S", "H", "X">>,
      RPUSHX |-> <<"R", "P", "U", "S", "H", "X">>, LPOP |-> <<"L", "P", "O", "P">>,
      RPOP |-> <<"R", "P", "O", "P">>, LSET |-> <<"L", "S", "E", "T">>,
      LINSERT |-> <<"L", "I", "N", "S", "E", "R", "T">>,
      HSET |-> <<"H", "S", "E", "T">>, SADD |-> <<"S", "A", "D", "D">>,
      SREM |-> <<"S", "R", "E", "M">>, SPOP |-> <<"S", "P", "O", "P">>,
      SMOVE |-> <<"S", "M", "O", "V", "E">>, ZADD |-> <<"Z", "A", "D", "D">>,
      ZREM |-> <<"Z", "R", "E", "M">>, FOO |-> <<"F", "O", "O">>,
      LRANGE |-> <<"L", "R", "A", "N", "G", "E">>,
      ZRANGE |-> <<"Z", "R", "A", "N", "G", "E">>,
      REPLCONF |-> <<"R", "E", "P", "L", "C", "O", "N", "F">>,
      GETACK |-> <<"G", "E", "T", "A", "C", "K">>, WAIT |-> <<"W", "A", "I", "T">>,
      XADD |-> <<"X", "A", "D", "D">>,
      XRANGE |-> <<"X", "R", "A", "N", "G", "E">>,
      XREAD |-> <<"X", "R", "E", "A", "D">>, BLOCK |-> <<"b", "l", "o", "c", "k">>,
      STREAMS |-> <<"s", "t", "r", "e", "a", "m", "s">>,
      PING |-> <<"P", "I", "N", "G">>, PSYNC |-> <<"P", "S", "Y", "N", "C">>,
      ACK |-> <<"A", "C", "K">>, CAPA |-> <<"c", "a", "p", "a">>,
      PSYNC2 |-> <<"p", "s", "y", "n", "c", "2">>,
      LISTENING_PORT |-> <<"l", "i", "s", "t", "e", "n", "i", "n", "g", "-",
                           "p", "o", "r", "t">> ]

\* Python values.  None is a record of its own so that it compares with texts.
None == [none |-> TRUE, s |-> <<>>]
Some(s) == [none |-> FALSE, s |-> s]

(***************************************************************************)
(* The keyspace: AsyncServer.memory and AsyncServer.expiration are dicts.  *)
(* A stored value is tagged with its Python type.                          *)
(***************************************************************************)
StrVal(s) == [kind |-> "str", val |-> s]
ListVal(l) == [kind |-> "list", val |-> l]
SetVal(m) == [kind |-> "set", val |-> m]
DictVal(h) == [kind |-> "dict", val |-> h]
ZSetVal(z) == [kind |-> "zset", val |-> z]

EmptyDict == [x \in {} |-> 0]
Has(d, k) == k \in DOMAIN d
Put(d, k, v) == [x \in (DOMAIN d) \cup {k} |-> IF x = k THEN v ELSE d[x]]
Pop(d, k) == [x \in (DOMAIN d) \ {k} |-> d[x]]

\* The result of a command handler: the store after it, its reply, the number of
\* register_change() calls it made and whether it reset numacks.
Result(mem, exp, rep) ==
    [memory |-> mem, expiration |-> exp, reply |-> rep, changes |-> 0, reset |-> FALSE]

(***************************************************************************)
(* commands/string_commands.py                                             *)
(***************************************************************************)
\* get_value: "if handler.expiration.get(key, None) and
\* handler.expiration[key] < time.time()" pops the key and returns None; a stored
\* expiry of 0.0 is falsy.  The returned text is in-band: the not-found and
\* wrong-type responses are returned as values.
Expired(exp, k, t) == Has(exp, k) /\ exp[k] # 0 /\ exp[k] < t

\* A get_value that forgets to pop the key from the expiration dict.
get_value_keeps_expiry(mem, exp, k, t) ==
    IF Expired(exp, k, t)
    THEN [memory |-> Pop(mem, k), expiration |-> exp, value |-> None]
    ELSE [memory |-> mem, expiration |-> exp,
          value |-> IF ~Has(mem, k) THEN Some(NOT_FOUND_RESPONSE)
                    ELSE IF mem[k].kind # "str" THEN Some(WRONG_TYPE_RESPONSE)
                    ELSE Some(mem[k].val)]

get_value(mem, exp, k, t) ==
    IF Expired(exp, k, t)
    THEN [memory |-> Pop(mem, k), expiration |-> Pop(exp, k), value |-> None]
    ELSE [memory |-> mem, expiration |-> exp,
          value |-> IF ~Has(mem, k) THEN Some(NOT_FOUND_RESPONSE)
                    ELSE IF mem[k].kind # "str" THEN Some(WRONG_TYPE_RESPONSE)
                    ELSE Some(mem[k].val)]

\* encoding_utils.as_bulk_string: "if not payload or payload == NOT_FOUND_RESPONSE".
as_bulk_string(payload) ==
    IF payload.none \/ payload.s = <<>> \/ payload.s = NOT_FOUND_RESPONSE
    THEN NOT_FOUND_RESPONSE
    ELSE IF payload.s = WRONG_TYPE_RESPONSE THEN WRONG_TYPE_RESPONSE
    ELSE Bulk(payload.s)

\* encoding_utils.generate_redis_array(lst=...), string left at its default "".
generate_redis_array(lst) ==
    IF Len(lst) = 0 THEN EMPTY_ARRAY_RESPONSE
    ELSE <<"*">> \o Dec(Len(lst)) \o CRLF
         \o Flatten([i \in 1..Len(lst) |->
                as_bulk_string(IF lst[i] = Some(WRONG_TYPE_RESPONSE)
                               THEN None ELSE lst[i])])

GetCommand(mem, exp, t, command) ==
    IF Len(command) < 2 THEN Result(mem, exp, EXCEPTION)
    ELSE LET g == get_value(mem, exp, command[2], t)
         IN Result(g.memory, g.expiration, as_bulk_string(g.value))

\* MGetCommand: one get_value per key, in order, each on the store the previous
\* one left.
RECURSIVE MGetLoop(_, _, _, _, _)
MGetLoop(mem, exp, t, keys, values) ==
    IF keys = <<>> THEN Result(mem, exp, generate_redis_array(values))
    ELSE LET g == get_value(mem, exp, Head(keys), t)
             v == IF g.value = Some(WRONG_TYPE_RESPONSE)
                     \/ g.value = Some(NOT_FOUND_RESPONSE)
                  THEN None ELSE g.value
         IN MGetLoop(g.memory, g.expiration, t, Tail(keys), Append(values, v))
MGetCommand(mem, exp, t, command) == MGetLoop(mem, exp, t, Tail(command), <<>>)

\* SetCommand's option loop "while i < len(command)": the last PX with an argument
\* wins; a PX argument that is no integer returns the error before any write.
RECURSIVE SetOptions(_, _, _)
SetOptions(command, i, expiry_ms) ==
    IF i > Len(command) THEN [ok |-> TRUE, expiry_ms |-> expiry_ms]
    ELSE IF Upper(command[i]) = T.PX /\ i + 1 <= Len(command)
    THEN IF ~IsInt(command[i + 1]) THEN [ok |-> FALSE, expiry_ms |-> None]
         ELSE SetOptions(command, i + 2, Some(command[i + 1]))
    ELSE SetOptions(command, i + 1, expiry_ms)

\* SetCommand.execute up to and including register_change() and numacks = 0; the
\* propagation loop over server.writers follows it (see Propagate).
SetCommand(mem, exp, t, command) ==
    IF Len(command) < 3 THEN Result(mem, exp, SET_ARITY_ERROR)
    ELSE LET o == SetOptions(command, 4, None)
             key == command[2]
         IN IF ~o.ok THEN Result(mem, exp, NON_INT_ERROR)
            ELSE [memory |-> Put(mem, key, StrVal(command[3])),
                  expiration |-> IF o.expiry_ms.none THEN Pop(exp, key)
                                 ELSE Put(exp, key, t + IntOf(o.expiry_ms.s)),
                  reply |-> OK_RESPONSE, changes |-> 1, reset |-> TRUE]

\* MSetCommand: one SetCommand.execute(["SET", key, value]) per pair.
RECURSIVE MSetLoop(_, _, _, _, _)
MSetLoop(mem, exp, t, pairs, n) ==
    IF pairs = <<>>
    THEN [memory |-> mem, expiration |-> exp, reply |-> OK_RESPONSE,
          changes |-> n, reset |-> n > 0]
    ELSE LET r == SetCommand(mem, exp, t, <<T.SET, pairs[1], pairs[2]>>)
         IN MSetLoop(r.memory, r.expiration, t, SubSeq(pairs, 3, Len(pairs)), n + 1)
MSetCommand(mem, exp, t, command) ==
    IF Len(command) % 2 # 1 THEN Result(mem, exp, MSET_ARITY_ERROR)
    ELSE MSetLoop(mem, exp, t, Tail(command), 0)

\* IncrByCommand: int(None) after an expiry raises TypeError, which the handler
\* does not catch.
IncrByCommand(mem, exp, t, command) ==
    IF Len(command) < 3 THEN Result(mem, exp, EXCEPTION)
    ELSE LET key == command[2]
             g == get_value(mem, exp, key, t)
             value == IF g.value = Some(NOT_FOUND_RESPONSE) THEN Some(<<"0">>)
                      ELSE g.value
         IN IF g.value = Some(WRONG_TYPE_RESPONSE)
            THEN Result(g.memory, g.expiration, WRONG_TYPE_RESPONSE)
            ELSE IF ~IsInt(command[3]) THEN Result(g.memory, g.expiration, NON_INT_ERROR)
            ELSE IF value.none THEN Result(g.memory, g.expiration, EXCEPTION)
            ELSE IF ~IsInt(value.s) THEN Result(g.memory, g.expiration, NON_INT_ERROR)
            ELSE LET n == IntOf(value.s) + IntOf(command[3])
                 IN Result(Put(g.memory, key, StrVal(Dec(n))), g.expiration,
                           IntReply(n))

IncrCommand(mem, exp, t, command) ==
    IF Len(command) < 2 THEN Result(mem, exp, EXCEPTION)
    ELSE IncrByCommand(mem, exp, t, <<T.INCRBY, command[2], <<"1">>>>)
DecrCommand(mem, exp, t, command) ==
    IF Len(command) < 2 THEN Result(mem, exp, EXCEPTION)
    ELSE IncrByCommand(mem, exp, t, <<T.INCRBY, command[2], <<"-", "1">>>>)
\* f"-{decrement}"
DecrByCommand(mem, exp, t, command) ==
    IF Len(command) < 3 THEN Result(mem, exp, EXCEPTION)
    ELSE IncrByCommand(mem, exp, t, <<T.INCRBY, command[2], <<"-">> \o command[3]>>)

\* AppendCommand: after an expiry get_value has popped the key and returned None,
\* and "handler.memory[key] += value" raises KeyError.
AppendCommand(mem, exp, t, command) ==
    IF Len(command) < 3 THEN Result(mem, exp, EXCEPTION)
    ELSE LET key == command[2]
             g == get_value(mem, exp, key, t)
         IN IF g.value = Some(WRONG_TYPE_RESPONSE)
            THEN Result(g.memory, g.expiration, WRONG_TYPE_RESPONSE)
            ELSE IF g.value = Some(NOT_FOUND_RESPONSE)
            THEN Result(Put(g.memory, key, StrVal(command[3])), g.expiration,
                        IntReply(Len(command[3])))
            ELSE IF g.value.none THEN Result(g.memory, g.expiration, EXCEPTION)
            ELSE LET v == g.memory[key].val \o command[3]
                 IN Result(Put(g.memory, key, StrVal(v)), g.expiration,
                           IntReply(Len(v)))

(***************************************************************************)
(* commands/list_commands.py                                               *)
(***************************************************************************)
\* get_list_from_memory / get_hash_map_from_memory / get_set_from_memory /
\* get_sorted_set_from_memory: a fresh empty container when the key is absent,
\* the wrong-type sentinel when the stored value is of another type.  No expiry
\* check is made.
WrongKind(mem, k, kind) == Has(mem, k) /\ mem[k].kind # kind
get_list_from_memory(mem, k) == IF Has(mem, k) THEN mem[k].val ELSE <<>>

Contains(l, x) == \E i \in 1..Len(l) : l[i] = x
\* list.index(x)
IndexOf(l, x) == CHOOSE i \in 1..Len(l) : l[i] = x /\ \A j \in 1..(i - 1) : l[j] # x
InsertAt(l, i, x) == SubSeq(l, 1, i - 1) \o <<x>> \o SubSeq(l, i, Len(l))


\* LInsertCommand: the list is changed in place; for an absent key the fresh list
\* holds no pivot.
LInsertCommand(mem, exp, command) ==
    IF Len(command) < 5 THEN Result(mem, exp, EXCEPTION)
    ELSE LET key == command[2]
             position == Lower(command[3])
             pivot == command[4]
             value == command[5]
             l == get_list_from_memory(mem, key)
         IN IF WrongKind(mem, key, "list") THEN Result(mem, exp, WRONG_TYPE_RESPONSE)
            ELSE IF ~Contains(l, pivot) THEN Result(mem, exp, NIL_RESPONSE)
            ELSE IF position = T.BEFORE
            THEN Result(Put(mem, key, ListVal(InsertAt(l, IndexOf(l, pivot), value))),
                        exp, IntReply(Len(l) + 1))
            ELSE IF position = T.AFTER
            THEN Result(Put(mem, key, ListVal(InsertAt(l, IndexOf(l, pivot) + 1, value))),
                        exp, IntReply(Len(l) + 1))
            ELSE Result(mem, exp, SYNTAX_ERROR)

\* LPopCommand / RPopCommand: the emptied list's key is popped from memory; the
\* expiration dict is not touched.
LPopCommand(mem, exp, command) ==
    IF Len(command) < 2 THEN Result(mem, exp, EXCEPTION)
    ELSE LET key == command[2]
             l == get_list_from_memory(mem, key)
         IN IF WrongKind(mem, key, "list") THEN Result(mem, exp, WRONG_TYPE_RESPONSE)
            ELSE IF l = <<>> THEN Result(mem, exp, NIL_RESPONSE)
            ELSE Result(IF Tail(l) = <<>> THEN Pop(mem, key)
                        ELSE Put(mem, key, ListVal(Tail(l))),
                        exp, Bulk(Head(l)))

RPopCommand(mem, exp, command) ==
    IF Len(command) < 2 THEN Result(mem, exp, EXCEPTION)
    ELSE LET key == command[2]
             l == get_list_from_memory(mem, key)
             rest == SubSeq(l, 1, Len(l) - 1)
         IN IF WrongKind(mem, key, "list") THEN Result(mem, exp, WRONG_TYPE_RESPONSE)
            ELSE IF l = <<>> THEN Result(mem, exp, NIL_RESPONSE)
            ELSE Result(IF rest = <<>> THEN Pop(mem, key)
                        ELSE Put(mem, key, ListVal(rest)),
                        exp, Bulk(l[Len(l)]))

\* LPushXCommand / RPushXCommand: a missing or empty list is refused with the
\* wrong-type response.
LPushXCommand(mem, exp, command) ==
    IF Len(command) < 2 THEN Result(mem, exp, EXCEPTION)
    ELSE LET key == command[2]
             l == get_list_from_memory(mem, key)
             values == Reverse(SubSeq(command, 3, Len(command))) \o l
         IN IF WrongKind(mem, key, "list") \/ l = <<>>
            THEN Result(mem, exp, WRONG_TYPE_RESPONSE)
            ELSE Result(Put(mem, key, ListVal(values)), exp, IntReply(Len(values)))

RPushXCommand(mem, exp, command) ==
    IF Len(command) < 2 THEN Result(mem, exp, EXCEPTION)
    ELSE LET key == command[2]
             l == get_list_from_memory(mem, key)
             values == l \o SubSeq(command, 3, Len(command))
         IN IF WrongKind(mem, key, "list") \/ l = <<>>
            THEN Result(mem, exp, WRONG_TYPE_RESPONSE)
            ELSE Result(Put(mem, key, ListVal(values)), exp, IntReply(Len(values)))

LPushCommand(mem, exp, command) ==
    IF Len(command) < 2 THEN Result(mem, exp, EXCEPTION)
    ELSE LET key == command[2]
             l == get_list_from_memory(mem, key)
             values == Reverse(SubSeq(command, 3, Len(command))) \o l
         IN IF WrongKind(mem, key, "list") THEN Result(mem, exp, WRONG_TYPE_RESPONSE)
            ELSE Result(Put(mem, key, ListVal(values)), exp, IntReply(Len(values)))

\* values[a:b] on a list
PySlice(values, a, b) ==
    LET n == Len(values)
        Norm(i) == IF i < 0 THEN (IF i + n < 0 THEN 0 ELSE i + n)
                   ELSE (IF i > n THEN n ELSE i)
    IN IF Norm(a) < Norm(b) THEN SubSeq(values, Norm(a) + 1, Norm(b)) ELSE <<>>

\* LRangeCommand: int() of a text that is no integer raises ValueError.
LRangeCommand(mem, exp, command) ==
    IF Len(command) < 2 THEN Result(mem, exp, EXCEPTION)
    ELSE IF WrongKind(mem, command[2], "list") THEN Result(mem, exp, WRONG_TYPE_RESPONSE)
    ELSE IF Len(command) < 4 \/ ~IsInt(command[3]) \/ ~IsInt(command[4])
    THEN Result(mem, exp, EXCEPTION)
    ELSE LET values == get_list_from_memory(mem, command[2])
             n == Len(values)
             Max0(i) == IF i < 0 THEN 0 ELSE i
             MinLast(i) == IF i > n - 1 THEN n - 1 ELSE i
             FromTail(i) == IF i < 0 THEN n + i ELSE i
             start == MinLast(Max0(FromTail(IntOf(command[3]))))
             stop == MinLast(Max0(FromTail(IntOf(command[4]))))
             out == PySlice(values, start, stop + 1)
         IN Result(mem, exp, generate_redis_array([i \in 1..Len(out) |-> Some(out[i])]))

RPushCommand(mem, exp, command) ==
    IF Len(command) < 2 THEN Result(mem, exp, EXCEPTION)
    ELSE LET key == command[2]
             l == get_list_from_memory(mem, key)
             values == l \o SubSeq(command, 3, Len(command))
         IN IF WrongKind(mem, key, "list") THEN Result(mem, exp, WRONG_TYPE_RESPONSE)
            ELSE Result(Put(mem, key, ListVal(values)), exp, IntReply(Len(values)))

\* LSetCommand: the index is parsed before the type of the key is looked at; an
\* index out of range is answered with the not-an-integer error.
LSetCommand(mem, exp, command) ==
    IF Len(command) < 3 THEN Result(mem, exp, EXCEPTION)
    ELSE IF ~IsInt(command[3]) THEN Result(mem, exp, NON_INT_ERROR)
    ELSE IF Len(command) < 4 THEN Result(mem, exp, EXCEPTION)
    ELSE LET key == command[2]
             l == get_list_from_memory(mem, key)
             given == IntOf(command[3])
             index == IF given < 0 THEN Len(l) + given ELSE given
         IN IF WrongKind(mem, key, "list") THEN Result(mem, exp, WRONG_TYPE_RESPONSE)
            ELSE IF index < 0 \/ index >= Len(l) THEN Result(mem, exp, NON_INT_ERROR)
            ELSE Result(Put(mem, key, ListVal([l EXCEPT ![index + 1] = command[4]])),
                        exp, OK_RESPONSE)

(***************************************************************************)
(* commands/hash_map_commands.py                                           *)
(***************************************************************************)
get_hash_map_from_memory(mem, k) == IF Has(mem, k) THEN mem[k].val ELSE EmptyDict

\* The "for i in range(2, len(command), 2)" loop: pairs are written in place one by
\* one; a dangling field raises IndexError after the earlier pairs were written
\* (into the stored dict, when the key exists).
RECURSIVE HSetLoop(_, _, _)
HSetLoop(h, command, i) ==
    IF i > Len(command) THEN [ok |-> TRUE, h |-> h]
    ELSE IF i + 1 > Len(command) THEN [ok |-> FALSE, h |-> h]
    ELSE HSetLoop(Put(h, command[i], command[i + 1]), command, i + 2)

HSetCommand(mem, exp, command) ==
    IF Len(command) < 2 THEN Result(mem, exp, EXCEPTION)
    ELSE LET key == command[2]
             r == HSetLoop(get_hash_map_from_memory(mem, key), command, 3)
         IN IF WrongKind(mem, key, "dict") THEN Result(mem, exp, WRONG_TYPE_RESPONSE)
            ELSE IF r.ok THEN Result(Put(mem, key, DictVal(r.h)), exp, OK_RESPONSE)
            ELSE Result(IF Has(mem, key) THEN Put(mem, key, DictVal(r.h)) ELSE mem,
                        exp, EXCEPTION)

(***************************************************************************)
(* commands/set_commands.py                                                *)
(***************************************************************************)
get_set_from_memory(mem, k) == IF Has(mem, k) THEN mem[k].val ELSE {}
Range(s) == {s[i] : i \in 1..Len(s)}

\* SAddCommand stores the set even when nothing was added.
SAddCommand(mem, exp, command) ==
    IF Len(command) < 2 THEN Result(mem, exp, EXCEPTION)
    ELSE LET key == command[2]
             m == get_set_from_memory(mem, key)
             values == Range(SubSeq(command, 3, Len(command)))
         IN IF WrongKind(mem, key, "set") THEN Result(mem, exp, WRONG_TYPE_RESPONSE)
            ELSE Result(Put(mem, key, SetVal(m \cup values)), exp,
                        IntReply(Cardinality(values \ m)))

\* SRemCommand removes in place and never pops the key.
SRemCommand(mem, exp, command) ==
    IF Len(command) < 2 THEN Result(mem, exp, EXCEPTION)
    ELSE LET key == command[2]
             m == get_set_from_memory(mem, key)
             values == Range(SubSeq(command, 3, Len(command)))
         IN IF WrongKind(mem, key, "set") THEN Result(mem, exp, WRONG_TYPE_RESPONSE)
            ELSE Result(IF Has(mem, key) THEN Put(mem, key, SetVal(m \ values)) ELSE mem,
                        exp, IntReply(Cardinality(values \cap m)))

\* SPopCommand: set.pop() removes an arbitrary element, here `value`.
SPopCommand(mem, exp, command, value) ==
    IF Len(command) < 2 THEN Result(mem, exp, EXCEPTION)
    ELSE LET key == command[2]
             m == get_set_from_memory(mem, key)
         IN IF WrongKind(mem, key, "set") THEN Result(mem, exp, WRONG_TYPE_RESPONSE)
            ELSE IF m = {} THEN Result(mem, exp, NOT_FOUND_RESPONSE)
            ELSE Result(Put(mem, key, SetVal(m \ {value})), exp, Bulk(value))

\* SMoveCommand: the member is looked up in the source before the destination's
\* type is checked; the destination set of an absent key is a fresh set that is
\* never stored.
SMoveCommand(mem, exp, command) ==
    IF Len(command) < 4 THEN Result(mem, exp, EXCEPTION)
    ELSE LET source_key == command[2]
             dest_key == command[3]
             value == command[4]
             source_set == get_set_from_memory(mem, source_key)
             mem1 == Put(mem, source_key, SetVal(source_set \ {value}))
         IN IF WrongKind(mem, source_key, "set")
            THEN Result(mem, exp, WRONG_TYPE_RESPONSE)
            ELSE IF value \notin source_set THEN Result(mem, exp, IntReply(0))
            ELSE IF WrongKind(mem, dest_key, "set")
            THEN Result(mem, exp, WRONG_TYPE_RESPONSE)
            ELSE Result(IF Has(mem1, dest_key)
                        THEN Put(mem1, dest_key, SetVal(mem1[dest_key].val \cup {value}))
                        ELSE mem1,
                        exp, IntReply(1))

(***************************************************************************)
(* commands/sorted_set_commands.py.  A CoolCacheSortedSet is the pair of   *)
(* `data`, a SortedSet of (score, member) tuples, and `scores`, a dict     *)
(* member -> score.  A SortedSet keeps a set of its values and a sorted    *)
(* list of them, into which a value is inserted by bisection.  Scores are  *)
(* floats: the model draws integral ones and float("nan"), which float()   *)
(* accepts; nan stands for it, a number outside the range of the others.   *)
(***************************************************************************)
nan == 99
NanText == <<"n", "a", "n">>
\* float(s) raises ValueError / returns
IsFloat(s) == IsInt(s) \/ s = NanText
FloatOf(s) == IF s = NanText THEN nan ELSE IntOf(s)
\* a < b, a <= b, a >= b, a != b and a + b on floats: every comparison with
\* nan but != is false.
FLt(a, b) == a # nan /\ b # nan /\ a < b
FLe(a, b) == a # nan /\ b # nan /\ a <= b
FGe(a, b) == a # nan /\ b # nan /\ a >= b
FNe(a, b) == a = nan \/ b = nan \/ a # b
FAdd(a, b) == IF a = nan \/ b = nan THEN nan ELSE a + b

LetterOrd(c) == CHOOSE i \in 1..26 : LowerChars[i] = c
\* a < b on str
RECURSIVE StrLt(_, _)
StrLt(a, b) ==
    IF b = <<>> THEN FALSE
    ELSE IF a = <<>> THEN TRUE
    ELSE IF Head(a) = Head(b) THEN StrLt(Tail(a), Tail(b))
    ELSE LetterOrd(Head(a)) < LetterOrd(Head(b))
\* p < q on (score, member) tuples: the first elements that differ decide, and
\* an element differs from another unless it is the same object or equal to
\* it; a nan is the same object only within the same tuple.
TupleLt(p, q) ==
    IF (IF p[1] = nan \/ q[1] = nan THEN p = q ELSE p[1] = q[1])
    THEN StrLt(p[2], q[2])
    ELSE FLt(p[1], q[1])

\* bisect.bisect_right(a, x) and bisect.bisect_left(a, x), as they probe.
RECURSIVE TupleBisectRight(_, _, _, _)
TupleBisectRight(a, x, lo, hi) ==
    IF lo >= hi THEN lo
    ELSE LET mid == (lo + hi) \div 2
         IN IF TupleLt(x, a[mid + 1]) THEN TupleBisectRight(a, x, lo, mid)
            ELSE TupleBisectRight(a, x, mid + 1, hi)
RECURSIVE TupleBisectLeft(_, _, _, _)
TupleBisectLeft(a, x, lo, hi) ==
    IF lo >= hi THEN lo
    ELSE LET mid == (lo + hi) \div 2
         IN IF TupleLt(a[mid + 1], x) THEN TupleBisectLeft(a, x, mid + 1, hi)
            ELSE TupleBisectLeft(a, x, lo, mid)

\* SortedList.add: a value that is not below the maximum is appended, any
\* other is inserted by insort.
SortedListAdd(l, v) ==
    IF l = <<>> \/ ~TupleLt(v, l[Len(l)]) THEN Append(l, v)
    ELSE InsertAt(l, TupleBisectRight(l, v, 0, Len(l)) + 1, v)
\* The index SortedList.remove and SortedList.index find for a value, -1 where
\* they raise ValueError.
SortedListFind(l, v) ==
    IF l = <<>> \/ TupleLt(l[Len(l)], v) THEN -1
    ELSE LET idx == TupleBisectLeft(l, v, 0, Len(l))
         IN IF l[idx + 1] = v THEN idx ELSE -1
\* SortedSet.add and SortedSet.remove ("self._set.remove(value);
\* self._list.remove(value)": KeyError, or ValueError after the set changed).
EmptySortedSet == [set |-> {}, list |-> <<>>]
SortedSetAdd(d, v) ==
    IF v \in d.set THEN d
    ELSE [set |-> d.set \cup {v}, list |-> SortedListAdd(d.list, v)]
SortedSetRemove(d, v) ==
    IF v \notin d.set THEN [data |-> d, raised |-> TRUE]
    ELSE LET idx == SortedListFind(d.list, v)
         IN IF idx = -1
            THEN [data |-> [d EXCEPT !.set = @ \ {v}], raised |-> TRUE]
            ELSE [data |-> [set |-> d.set \ {v},
                            list |-> SubSeq(d.list, 1, idx)
                                        \o SubSeq(d.list, idx + 2, Len(d.list))],
                  raised |-> FALSE]

EmptyZSet == [data |-> EmptySortedSet, scores |-> EmptyDict]
get_sorted_set_from_memory(mem, k) == IF Has(mem, k) THEN mem[k].val ELSE EmptyZSet

NoFlags == [nx |-> FALSE, xx |-> FALSE, incr |-> FALSE, gt |-> FALSE,
            ch |-> FALSE, lt |-> FALSE]

check_conditions(z, score, member, f) ==
    LET in == Has(z.scores, member)
    IN ~ \/ (~in /\ f.xx) \/ (in /\ f.nx)
         \/ (f.gt /\ in /\ FGe(z.scores[member], score))
         \/ (f.lt /\ in /\ FLe(z.scores[member], score))
         \/ (f.incr /\ FLt(0, score) /\ in /\ f.lt)
         \/ (f.incr /\ FLt(score, 0) /\ in /\ f.gt)

\* CoolCacheSortedSet.zadd: the sorted set after the call, the returned bool
\* and whether data.remove raised.
zadd(z, score, member, f) ==
    IF ~check_conditions(z, score, member, f)
    THEN [z |-> z, ret |-> FALSE, raised |-> FALSE]
    ELSE LET existed == Has(z.scores, member)
             old == IF existed THEN z.scores[member] ELSE 0
             changed == existed /\ ((~f.incr /\ FNe(old, score)) \/ (f.incr /\ FNe(score, 0)))
             newscore == IF existed /\ f.incr THEN FAdd(score, old) ELSE score
             Removed(rm) ==
                 IF rm.raised
                 THEN [z |-> [z EXCEPT !.data = rm.data], ret |-> FALSE, raised |-> TRUE]
                 ELSE [z |-> [data |-> SortedSetAdd(rm.data, <<newscore, member>>),
                              scores |-> Put(z.scores, member, newscore)],
                       ret |-> (~existed) \/ (existed /\ changed /\ f.ch),
                       raised |-> FALSE]
         IN Removed(IF existed THEN SortedSetRemove(z.data, <<old, member>>)
                    ELSE [data |-> z.data, raised |-> FALSE])

\* CoolCacheSortedSet.zrem
zrem(z, member) ==
    IF Has(z.scores, member)
    THEN LET Removed(rm) ==
                 IF rm.raised
                 THEN [z |-> [z EXCEPT !.data = rm.data], ret |-> FALSE, raised |-> TRUE]
                 ELSE [z |-> [data |-> rm.data, scores |-> Pop(z.scores, member)],
                       ret |-> TRUE, raised |-> FALSE]
         IN Removed(SortedSetRemove(z.data, <<z.scores[member], member>>))
    ELSE [z |-> z, ret |-> FALSE, raised |-> FALSE]

\* CoolCacheSortedSet.zrank, zrevrank and zcard; -1 stands for the ValueError
\* of data.index and None for an absent member.
NoRank == [none |-> TRUE, v |-> 0]
zrank(z, member) ==
    IF Has(z.scores, member)
    THEN [none |-> FALSE, v |-> SortedListFind(z.data.list, <<z.scores[member], member>>)]
    ELSE NoRank
zrevrank(z, member) ==
    IF Has(z.scores, member)
    THEN LET idx == SortedListFind(z.data.list, <<z.scores[member], member>>)
         IN [none |-> FALSE, v |-> IF idx = -1 THEN -1 ELSE Cardinality(z.data.set) - 1 - idx]
    ELSE NoRank
zcard(z) == Cardinality(z.data.set)


\* ZAddCommand.parse_options: None (ok = FALSE) on a token that is neither an
\* option nor a float, and on an exclusive pair of options.
RECURSIVE ParseOptionsLoop(_, _, _)
ParseOptionsLoop(command, i, f) ==
    IF i > Len(command) THEN [ok |-> TRUE, f |-> f, first_num |-> 3]
    ELSE IF command[i] = T.NX THEN ParseOptionsLoop(command, i + 1, [f EXCEPT !.nx = TRUE])
    ELSE IF command[i] = T.XX THEN ParseOptionsLoop(command, i + 1, [f EXCEPT !.xx = TRUE])
    ELSE IF command[i] = T.INCR THEN ParseOptionsLoop(command, i + 1, [f EXCEPT !.incr = TRUE])
    ELSE IF command[i] = T.GT THEN ParseOptionsLoop(command, i + 1, [f EXCEPT !.gt = TRUE])
    ELSE IF command[i] = T.CH THEN ParseOptionsLoop(command, i + 1, [f EXCEPT !.ch = TRUE])
    ELSE IF command[i] = T.LT THEN ParseOptionsLoop(command, i + 1, [f EXCEPT !.lt = TRUE])
    ELSE IF IsFloat(command[i]) THEN [ok |-> TRUE, f |-> f, first_num |-> i]
    ELSE [ok |-> FALSE, f |-> f, first_num |-> 3]

parse_options(command) ==
    LET Exclusive(r) ==
            IF r.ok /\ ( \/ (r.f.xx /\ r.f.nx) \/ (r.f.gt /\ r.f.lt)
                         \/ (r.f.gt /\ r.f.nx) \/ (r.f.lt /\ r.f.nx) )
            THEN [r EXCEPT !.ok = FALSE]
            ELSE r
    IN Exclusive(ParseOptionsLoop(command, 3, NoFlags))

\* The "for i in range(first_num, len(command), 2)" loop of ZAddCommand.execute:
\* `stored` tells whether memory[key] holds the set being changed.
RECURSIVE ZAddLoop(_, _, _, _, _, _)
ZAddLoop(z, stored, command, i, f, added) ==
    IF i > Len(command) THEN [status |-> "ok", z |-> z, stored |-> stored, added |-> added]
    ELSE IF ~IsFloat(command[i])
    THEN [status |-> "float", z |-> z, stored |-> stored, added |-> added]
    ELSE IF i + 1 > Len(command)
    THEN [status |-> "raise", z |-> z, stored |-> stored, added |-> added]
    ELSE LET Added(r) ==
                 IF r.raised
                 THEN [status |-> "raise", z |-> r.z, stored |-> stored, added |-> added]
                 ELSE ZAddLoop(r.z, stored \/ r.ret, command, i + 2, f,
                               IF r.ret THEN added + 1 ELSE added)
         IN Added(zadd(z, FloatOf(command[i]), command[i + 1], f))

\* ZAddCommand.execute: "nx, xx, ... = options" is run before "if options is
\* None", so rejected options raise TypeError.
ZAddCommand(mem, exp, command) ==
    IF Len(command) < 2 THEN Result(mem, exp, EXCEPTION)
    ELSE LET key == command[2]
             Reply(r, mem1) ==
                 IF r.status = "float" THEN Result(mem1, exp, FLOAT_ERROR_MESSAGE)
                 ELSE IF r.status = "raise" THEN Result(mem1, exp, EXCEPTION)
                 ELSE Result(mem1, exp, IntReply(r.added))
             Looped(r) == Reply(r, IF r.stored THEN Put(mem, key, ZSetVal(r.z)) ELSE mem)
             Parsed(o) ==
                 IF ~o.ok THEN Result(mem, exp, EXCEPTION)
                 ELSE IF WrongKind(mem, key, "zset") THEN Result(mem, exp, WRONG_TYPE_RESPONSE)
                 ELSE Looped(ZAddLoop(get_sorted_set_from_memory(mem, key), Has(mem, key),
                                      command, o.first_num, o.f, 0))
         IN Parsed(parse_options(command))

RECURSIVE ZRemLoop(_, _, _)
ZRemLoop(z, members, removed) ==
    IF members = <<>> THEN [z |-> z, removed |-> removed, raised |-> FALSE]
    ELSE LET Removed(r) ==
                 IF r.raised THEN [z |-> r.z, removed |-> removed, raised |-> TRUE]
                 ELSE ZRemLoop(r.z, Tail(members), IF r.ret THEN removed + 1 ELSE removed)
         IN Removed(zrem(z, Head(members)))

\* ZRemCommand removes in place and never pops the key.
ZRemCommand(mem, exp, command) ==
    IF Len(command) < 2 THEN Result(mem, exp, EXCEPTION)
    ELSE LET key == command[2]
             Reply(r, mem1) ==
                 IF r.raised THEN Result(mem1, exp, EXCEPTION)
                 ELSE Result(mem1, exp, IntReply(r.removed))
             Looped(r) == Reply(r, IF Has(mem, key) THEN Put(mem, key, ZSetVal(r.z)) ELSE mem)
         IN IF WrongKind(mem, key, "zset") THEN Result(mem, exp, WRONG_TYPE_RESPONSE)
            ELSE Looped(ZRemLoop(get_sorted_set_from_memory(mem, key),
                                 SubSeq(command, 3, Len(command)), 0))

\* CoolCacheSortedSet.zrange: data[i] for i from start to end, stopping at
\* len(data); an index below -len(data) raises IndexError.
RECURSIVE ZRangeLoop(_, _, _, _)
ZRangeLoop(list, i, end, ret_list) ==
    IF i > end \/ i >= Len(list) THEN [raised |-> FALSE, v |-> ret_list]
    ELSE IF i < 0 - Len(list) THEN [raised |-> TRUE, v |-> ret_list]
    ELSE ZRangeLoop(list, i + 1, end,
                    Append(ret_list, list[(IF i < 0 THEN i + Len(list) ELSE i) + 1][2]))
zrange(z, start, end) ==
    ZRangeLoop(z.data.list,
               IF start < 0 THEN zcard(z) + start ELSE start,
               IF end < 0 THEN zcard(z) + end ELSE end, <<>>)

INVALID_INDEX == <<"Invalid start or stop index">>
\* ZRangeCommand: only ValueError is caught.
ZRangeCommand(mem, exp, command) ==
    IF Len(command) < 4 THEN Result(mem, exp, EXCEPTION)
    ELSE IF ~IsInt(command[3]) \/ ~IsInt(command[4]) THEN Result(mem, exp, INVALID_INDEX)
    ELSE IF WrongKind(mem, command[2], "zset") THEN Result(mem, exp, WRONG_TYPE_RESPONSE)
    ELSE LET Ranged(members) ==
                 IF members.raised THEN Result(mem, exp, EXCEPTION)
                 ELSE Result(mem, exp,
                             generate_redis_array([i \in 1..Len(members.v) |->
                                                      Some(members.v[i])]))
         IN Ranged(zrange(get_sorted_set_from_memory(mem, command[2]),
                          IntOf(command[3]), IntOf(command[4])))

(***************************************************************************)
(* AsyncRequestHandler.command_map and the dispatch of handle_request      *)
(***************************************************************************)

\* The element set.pop() may return for this command: any member of the stored
\* set for an SPOP, and nothing to choose otherwise.
Picks(mem, cmd) ==
    IF /\ Len(cmd) >= 2 /\ Upper(cmd[1]) = T.SPOP
       /\ Has(mem, cmd[2]) /\ mem[cmd[2]].kind = "set" /\ mem[cmd[2]].val # {}
    THEN mem[cmd[2]].val
    ELSE {<<>>}

\* The keys of AsyncRequestHandler.command_map.
command_map ==
    { <<"P", "I", "N", "G">>, <<"E", "C", "H", "O">>, <<"S", "E", "T">>,
      <<"G", "E", "T">>, <<"I", "N", "F", "O">>,
      <<"R", "E", "P", "L", "C", "O", "N", "F">>, <<"P", "S", "Y", "N", "C">>,
      <<"W", "A", "I", "T">>, <<"C", "O", "N", "F", "I", "G">>,
      <<"K", "E", "Y", "S">>, <<"T", "Y", "P", "E">>, <<"X", "A", "D", "D">>,
      <<"X", "R", "A", "N", "G", "E">>, <<"X", "R", "E", "A", "D">>,
      <<"L", "P", "U", "S", "H">>, <<"R", "P", "U", "S", "H">>,
      <<"L", "P", "O", "P">>, <<"R", "P", "O", "P">>, <<"L", "L", "E", "N">>,
      <<"L", "I", "N", "D", "E", "X">>, <<"L", "I", "N", "S", "E", "R", "T">>,
      <<"L", "P", "U", "S", "H", "X">>, <<"R", "P", "U", "S", "H", "X">>,
      <<"L", "R", "A", "N", "G", "E">>, <<"L", "S", "E", "T">>, <<"D", "E", "L">>,
      <<"S", "A", "D", "D">>, <<"S", "C", "A", "R", "D">>,
      <<"S", "I", "S", "M", "E", "M", "B", "E", "R">>,
      <<"S", "M", "E", "M", "B", "E", "R", "S">>, <<"S", "R", "E", "M">>,
      <<"S", "P", "O", "P">>, <<"S", "U", "N", "I", "O", "N">>,
      <<"S", "I", "N", "T", "E", "R">>, <<"S", "D", "I", "F", "F">>,
      <<"S", "M", "O", "V", "E">>, <<"M", "S", "E", "T">>, <<"M", "G", "E", "T">>,
      <<"I", "N", "C", "R">>, <<"D", "E", "C", "R">>,
      <<"I", "N", "C", "R", "B", "Y">>, <<"D", "E", "C", "R", "B", "Y">>,
      <<"A", "P", "P", "E", "N", "D">>, <<"H", "S", "E", "T">>,
      <<"H", "G", "E", "T">>, <<"H", "G", "E", "T", "A", "L", "L">>,
      <<"Z", "A", "D", "D">>, <<"Z", "R", "E", "M">>,
      <<"Z", "R", "A", "N", "G", "E">>,
      <<"Z", "R", "A", "N", "G", "E", "B", "Y", "S", "C", "O", "R", "E">>,
      <<"Z", "R", "A", "N", "K">>, <<"Z", "R", "E", "V", "R", "A", "N", "K">>,
      <<"Z", "S", "C", "O", "R", "E">>, <<"Z", "C", "A", "R", "D">>,
      <<"Z", "C", "O", "U", "N", "T">>, <<"S", "A", "V", "E">>,
      <<"B", "G", "S", "A", "V", "E">>, <<"F", "L", "U", "S", "H", "A", "L", "L">>,
      <<"L", "A", "S", "T", "S", "A", "V", "E">> }

\* handle_request's body for one parsed command: cmd[0].upper() is looked up in
\* command_map.  For a name that is not there the code calls
\* commands.UnknownCommand.execute(self, cmd) on the class, not on an instance:
\* the handler is bound to `self`, cmd to `handler`, and the call raises
\* TypeError for the missing argument `command` before any reply is made.  The
\* inputs of the model name no command of command_map but the ones below.
Execute(mem, exp, t, cmd, pick) ==
    IF cmd = <<>> THEN Result(mem, exp, EXCEPTION)
    ELSE LET cmd_name == Upper(cmd[1])
         IN CASE cmd_name = T.SET -> SetCommand(mem, exp, t, cmd)
              [] cmd_name = T.GET -> GetCommand(mem, exp, t, cmd)
              [] cmd_name = T.MSET -> MSetCommand(mem, exp, t, cmd)
              [] cmd_name = T.MGET -> MGetCommand(mem, exp, t, cmd)
              [] cmd_name = T.INCR -> IncrCommand(mem, exp, t, cmd)
              [] cmd_name = T.DECR -> DecrCommand(mem, exp, t, cmd)
              [] cmd_name = T.INCRBY -> IncrByCommand(mem, exp, t, cmd)
              [] cmd_name = T.DECRBY -> DecrByCommand(mem, exp, t, cmd)
              [] cmd_name = T.APPEND -> AppendCommand(mem, exp, t, cmd)
              [] cmd_name = T.LPUSH -> LPushCommand(mem, exp, cmd)
              [] cmd_name = T.RPUSH -> RPushCommand(mem, exp, cmd)
              [] cmd_name = T.LPUSHX -> LPushXCommand(mem, exp, cmd)
              [] cmd_name = T.RPUSHX -> RPushXCommand(mem, exp, cmd)
              [] cmd_name = T.LPOP -> LPopCommand(mem, exp, cmd)
              [] cmd_name = T.RPOP -> RPopCommand(mem, exp, cmd)
              [] cmd_name = T.LSET -> LSetCommand(mem, exp, cmd)
              [] cmd_name = T.LINSERT -> LInsertCommand(mem, exp, cmd)
              [] cmd_name = T.HSET -> HSetCommand(mem, exp, cmd)
              [] cmd_name = T.SADD -> SAddCommand(mem, exp, cmd)
              [] cmd_name = T.SREM -> SRemCommand(mem, exp, cmd)
              [] cmd_name = T.SPOP -> SPopCommand(mem, exp, cmd, pick)
              [] cmd_name = T.SMOVE -> SMoveCommand(mem, exp, cmd)
              [] cmd_name = T.ZADD -> ZAddCommand(mem, exp, cmd)
              [] cmd_name = T.ZREM -> ZRemCommand(mem, exp, cmd)
              [] cmd_name = T.LRANGE -> LRangeCommand(mem, exp, cmd)
              [] cmd_name = T.ZRANGE -> ZRangeCommand(mem, exp, cmd)
              [] cmd_name \notin command_map -> Result(mem, exp, EXCEPTION)

(***************************************************************************)
(* Bounds of the model and the inputs drawn within them                    *)
(***************************************************************************)
MaxTime == 3
MaxStrLen == 2
MaxInt == 1
MaxListLen == 2
MaxScore == 2
MaxChanges == 3

Keys == {<<"x">>, <<"y">>}
Vals == {<<"a">>, <<"b">>}
Fields == {<<"f">>}

Abs(n) == IF n < 0 THEN 0 - n ELSE n

ValueWithinBounds(v) ==
    CASE v.kind = "str" -> /\ Len(v.val) <= MaxStrLen
                           /\ IsInt(v.val) => Abs(IntOf(v.val)) <= MaxInt
      [] v.kind = "list" -> Len(v.val) <= MaxListLen
      [] v.kind = "zset" -> \A m \in DOMAIN v.val.scores :
                                v.val.scores[m] = nan \/ Abs(v.val.scores[m]) <= MaxScore
      [] OTHER -> TRUE
WithinBounds(mem) == \A k \in DOMAIN mem : ValueWithinBounds(mem[k])

(***************************************************************************)
(* The states after construction (AsyncServer.__init__) and the idle       *)
(* states of the parts a specification does not exercise                   *)
(***************************************************************************)
InitStore ==
    /\ memory = EmptyDict
    /\ expiration = EmptyDict
    /\ changes = 0
    /\ now = 1
    /\ request = <<>>
    /\ before = [memory |-> EmptyDict, expiration |-> EmptyDict, now |-> 1]
    /\ reply = NoReply

\* The connections: two clients and two replicas.  A task is the coroutine that
\* serves a connection: where it stands (pc), the index into server.writers of the
\* writer whose drain() it awaits (at), what it is writing (entry), the arguments
\* and timestamps of a WAIT, the pairs an MSET has still to set (rest), and the
\* last reply it wrote to its own client.
Clients == {"c1", "c2"}
Replicas == {"r1", "r2"}
Conns == Clients \cup Replicas
NoEntry == [data |-> <<>>, of |-> 0]
Idle(rep) ==
    [pc |-> "idle", at |-> 0, entry |-> NoEntry, n |-> 0, ms |-> 0, start |-> 0,
     wake |-> 0, issued |-> 0, reply |-> rep, rest |-> <<>>]

InitRepl ==
    /\ writers = <<>>
    /\ numacks = 0
    /\ wire = [r \in Replicas |-> <<>>]
    /\ task = [c \in Clients |-> Idle(NoReply)]
    /\ paused = {}
    /\ applied = <<>>

NoConn == script = <<>> /\ run = <<>>
NoCodec == codecIn = <<>> /\ codecBuf = <<>> /\ codecOut = <<>>
\* The task of the connection that sends XREAD: where it stands (pc), the block
\* time, keys and ids of its command, the time its sleep ends, whether the
\* client has closed the connection, and the reply it wrote.
XIdle ==
    [pc |-> "idle", ms |-> 0, keys |-> <<>>, ids |-> <<>>, wake |-> 0,
     closed |-> FALSE, reply |-> NoReply]
NoStream ==
    /\ streamstore = EmptyDict /\ xlog = EmptyDict /\ xreply = NoReply
    /\ xrequest = <<>> /\ xbefore = EmptyDict /\ xtask = XIdle
\* No snapshot file is being written or read; AsyncServer.__init__ sets
\* last_save_time = 0 and _auto_save_task = None.
\* The auto-save task: where it stands, the copies its worker took (data,
\* expires), the keys whose value in data is still the object the store holds
\* (alias), what the worker wrote and whether it succeeded, and for the claims
\* the store at the moment the save was triggered (seen) and whether the last
\* step was a command that registered a change (checked).
NoTask ==
    [pc |-> "none", data |-> <<>>, expires |-> <<>>, alias |-> {}, written |-> <<>>,
     success |-> FALSE, seen |-> <<>>, checked |-> FALSE]
NoFile == [state |-> "none", bytes |-> <<>>]
NotRead == [state |-> "none", value |-> <<>>]
NoSave ==
    /\ rdbIn = <<>> /\ rdbFile = NoFile /\ rdbOut = NotRead
    /\ last_save_time = 0 /\ autosave = NoTask /\ mutations = 0
\* No replica is starting.  The startup coroutine of a replica: where it
\* stands (pc), its own port, the frames it wrote to its master and the replies
\* it read.  The handler of the connection to the master: the replica's store,
\* handler.offset, what it wrote back (out), whether its task is alive, and for
\* the claims the bytes of the commands it consumed and, per GETACK, the offset
\* a reply should carry (expect).
NotStarted == [pc |-> "none", port |-> <<>>, sent |-> <<>>, got |-> <<>>]
NoLink ==
    [memory |-> EmptyDict, expiration |-> EmptyDict, offset |-> 0, out |-> <<>>,
     alive |-> TRUE, bytes |-> 0, expect |-> <<>>, loaded |-> FALSE]
NoBoot == boot = NotStarted /\ up = <<>> /\ down = <<>> /\ link = NoLink

(***************************************************************************)
(* One command handled on a primary without replicas: handle_request for a *)
(* read that holds exactly this command.  With server.writers empty the    *)
(* propagation loop of SetCommand has nothing to write.                    *)
(***************************************************************************)
Handle(cmd) ==
    /\ writers = <<>>
    /\ \E pick \in Picks(memory, cmd) :
       \E r \in {Execute(memory, expiration, now, cmd, pick)} :
             /\ WithinBounds(r.memory)
             /\ changes + r.changes <= MaxChanges
             /\ memory' = r.memory
             /\ expiration' = r.expiration
             /\ changes' = changes + r.changes
             /\ numacks' = IF r.reset THEN 0 ELSE numacks
             /\ request' = cmd
             /\ before' = [memory |-> memory, expiration |-> expiration, now |-> now]
             /\ reply' = r.reply
    /\ UNCHANGED <<now, writers, wire, task, paused, applied>>
    /\ UNCHANGED <<connVars, codecVars, streamVars, saveVars, bootVars>>

\* time.time() advances.
Tick ==
    /\ now < MaxTime
    /\ \A c \in Clients : task[c].pc = "wait_poll" => task[c].wake > now
    /\ xtask.pc \in {"sleep", "poll", "found"} => xtask.wake > now
    /\ now' = now + 1
    /\ UNCHANGED <<memory, expiration, changes, request, before, reply>>
    /\ UNCHANGED <<replVars, connVars, codecVars, streamVars, saveVars, bootVars>>

OtherKey(k) == CHOOSE j \in Keys : j # k
PxArgs == {<<"-", "1">>, <<"0">>, <<"1">>}
One == <<"1">>

StringCommands ==
    {<<T.SET, k, v>> : k \in Keys, v \in Vals \cup {<<>>}}
    \cup {<<T.SET, k, v, T.PX, p>> : k \in Keys, v \in Vals, p \in PxArgs}
    \cup {<<T.GET, k>> : k \in Keys}
    \cup {<<T.MGET, k1, k2>> : k1 \in Keys, k2 \in Keys}
    \cup {<<T.MSET, k, v, OtherKey(k), v>> : k \in Keys, v \in Vals}

StringCommand == \E cmd \in StringCommands : Handle(cmd)

Init == InitStore /\ InitRepl /\ NoConn /\ NoCodec /\ NoStream /\ NoSave /\ NoBoot
Next == StringCommand \/ Tick
Spec == Init /\ [][Next]_vars

(***************************************************************************)
(* The typed keyspace without the clock: every command of the list, hash,  *)
(* set and sorted-set families that writes, next to SET, APPEND and INCRBY *)
(***************************************************************************)
Zero == <<"0">>

TypedCommands ==
    {<<T.SET, k, <<"a">>>> : k \in Keys}
    \cup {<<T.SET, k, <<"a">>, T.PX, One>> : k \in Keys}
    \cup {<<T.APPEND, k, <<"a">>>> : k \in Keys}
    \cup {<<T.INCRBY, k, One>> : k \in Keys}
    \cup {<<T.LPUSH, k, <<"a">>>> : k \in Keys}
    \cup {<<T.RPUSH, k, <<"b">>>> : k \in Keys}
    \cup {<<T.LPUSHX, k, <<"a">>>> : k \in Keys}
    \cup {<<T.RPUSHX, k, <<"b">>>> : k \in Keys}
    \cup {<<T.LPOP, k>> : k \in Keys}
    \cup {<<T.RPOP, k>> : k \in Keys}
    \cup {<<T.LSET, k, i, <<"b">>>> : k \in Keys, i \in {Zero, <<"a">>}}
    \cup {<<T.LINSERT, k, T.BEFORE, <<"a">>, <<"b">>>> : k \in Keys}
    \cup {<<T.HSET, k, f, <<"a">>>> : k \in Keys, f \in Fields}
    \cup {<<T.SADD, k, <<"a">>>> : k \in Keys}
    \cup {<<T.SREM, k, <<"a">>>> : k \in Keys}
    \cup {<<T.SPOP, k>> : k \in Keys}
    \cup {<<T.SMOVE, k, OtherKey(k), v>> : k \in Keys, v \in Vals}
    \cup {<<T.ZADD, k, One, <<"a">>>> : k \in Keys}
    \cup {<<T.ZREM, k, <<"a">>>> : k \in Keys}

TypedCommand == \E cmd \in TypedCommands : Handle(cmd)

NextTyped == TypedCommand
SpecTyped == Init /\ [][NextTyped]_vars

(***************************************************************************)
(* Claims about the typed keyspace                                         *)
(***************************************************************************)
ListWriters == {T.LPUSH, T.RPUSH, T.LPUSHX, T.RPUSHX, T.LPOP, T.RPOP, T.LSET, T.LINSERT}
SetWriters == {T.SADD, T.SREM, T.SPOP, T.SMOVE}
GuardedCommands ==
    ListWriters \cup SetWriters \cup {T.HSET, T.ZADD, T.ZREM, T.APPEND, T.INCRBY}
KindFor(name) ==
    IF name \in ListWriters THEN "list"
    ELSE IF name \in SetWriters THEN "set"
    ELSE IF name = T.HSET THEN "dict"
    ELSE IF name \in {T.ZADD, T.ZREM} THEN "zset"
    ELSE "str"
KeysOf(cmd) == IF cmd[1] = T.SMOVE THEN {cmd[2], cmd[3]} ELSE {cmd[2]}
\* The command is one of the guarded writers and a key it names holds a value of
\* another kind.
KindMismatch(cmd, mem) ==
    /\ cmd # <<>>
    /\ cmd[1] \in GuardedCommands
    /\ \E k \in KeysOf(cmd) : WrongKind(mem, k, KindFor(cmd[1]))

\* C1: a guarded writer (LPUSH, RPUSH, LPUSHX, RPUSHX, LPOP, RPOP, LSET, LINSERT,
\* HSET, SADD, SREM, SPOP, SMOVE, ZADD, ZREM, APPEND, INCRBY) run against an
\* existing key of a different kind replies WRONGTYPE and leaves the keyspace and
\* the expiration table as they were.
C1_WrongTypeGuard ==
    KindMismatch(request, before.memory)
        => /\ reply = WRONG_TYPE_RESPONSE
           /\ memory = before.memory
           /\ expiration = before.expiration

(***************************************************************************)
(* Claims about the string commands and lazy expiry                        *)
(***************************************************************************)
IsGet(cmd) == Len(cmd) = 2 /\ cmd[1] = T.GET
IsMGet(cmd) == Len(cmd) = 3 /\ cmd[1] = T.MGET

\* The recorded expiry t of k lies at or before / strictly before the time the
\* command was served.
ExpiryReached(k) == Has(before.expiration, k) /\ before.now >= before.expiration[k]
ExpiryPassed(k) ==
    /\ Has(before.expiration, k)
    /\ before.expiration[k] # 0
    /\ before.now > before.expiration[k]
\* k is served exactly at its expiry and holds a non-empty text.
AtExpiry(k) ==
    /\ Has(before.expiration, k)
    /\ before.expiration[k] = before.now
    /\ Has(before.memory, k)
    /\ before.memory[k].val # <<>>

AnyBulk == {NOT_FOUND_RESPONSE} \cup {Bulk(v) : v \in Vals \cup {<<>>}}
ArrayReply(elems) == <<"*">> \o Dec(Len(elems)) \o CRLF \o Flatten(elems)
Removed(k) == ~Has(memory, k) /\ ~Has(expiration, k)

Want(k) ==
    IF ExpiryPassed(k) THEN {NOT_FOUND_RESPONSE}
    ELSE IF AtExpiry(k) THEN {Bulk(before.memory[k].val)}
    ELSE AnyBulk

C3_SetGetRoundTrip ==
    IsGet(request)
        => /\ (Has(before.memory, request[2]) /\ ~Has(before.expiration, request[2]))
                 => reply = Bulk(before.memory[request[2]].val)
           /\ reply = NOT_FOUND_RESPONSE
                 => \/ ~Has(before.memory, request[2])
                    \/ ExpiryReached(request[2])

(***************************************************************************)
(* The wire codec on its own: a list of command vectors is encoded frame   *)
(* by frame into one buffer, and the buffer is parsed.                     *)
(***************************************************************************)
MaxElemLen == 1
MaxVector == 2
MaxFrames == 2
CodecChars == {"a", WideChar}
CodecVectors == SeqsUpTo(SeqsUpTo(CodecChars, MaxElemLen), MaxVector)

InitCodec ==
    /\ codecIn \in SeqsUpTo(CodecVectors, MaxFrames) \ {<<>>}
    /\ codecBuf = <<>>
    /\ codecOut = <<>>

EncodeAll ==
    /\ codecBuf = <<>>
    /\ codecBuf' = Flatten([i \in 1..Len(codecIn) |-> encode_redis_protocol(codecIn[i])])
    /\ UNCHANGED <<codecIn, codecOut>>
    /\ UNCHANGED <<kvVars, replVars, connVars, streamVars, saveVars, bootVars>>

ParseAll ==
    /\ codecBuf # <<>>
    /\ codecOut = <<>>
    /\ codecOut' = <<parse_redis_protocol(codecBuf)>>
    /\ UNCHANGED <<codecIn, codecBuf>>
    /\ UNCHANGED <<kvVars, replVars, connVars, streamVars, saveVars, bootVars>>

NextCodec == EncodeAll \/ ParseAll
CodecInit == InitStore /\ InitRepl /\ NoConn /\ InitCodec /\ NoStream /\ NoSave /\ NoBoot
SpecCodec == CodecInit /\ [][NextCodec]_vars

\* C9: parsing the concatenation of the encodings of c1..cn yields exactly
\* [c1..cn], and the i-th reported length is the number of bytes of the encoding
\* of ci.
C9_CodecRoundTrip ==
    codecOut # <<>>
        => /\ codecOut[1].commands = codecIn
           /\ codecOut[1].lengths
                 = [i \in 1..Len(codecIn) |-> Len(encode_redis_protocol(codecIn[i]))]

(***************************************************************************)
(* AsyncRequestHandler.process_request / handle_request on a primary: one  *)
(* connection, whose reads are the elements of `reads`.  Two servers are   *)
(* fed the same script, cut into reads differently.                        *)
(***************************************************************************)
NewRun(reads) ==
    [memory |-> EmptyDict, expiration |-> EmptyDict, changes |-> 0, offset |-> 0,
     reads |-> reads, out |-> <<>>, executed |-> <<>>, alive |-> TRUE]

\* The "for index, cmd in enumerate(command_list)" loop.  A handler that raises
\* ends the connection's task: nothing more is executed or read.  set.pop() takes
\* the same element on both servers.
RECURSIVE RunCommands(_, _, _, _, _)
RunCommands(st, commands, lengths, index, t) ==
    IF index > Len(commands) THEN st
    ELSE LET cmd == commands[index]
             Executed(r) == [st EXCEPT !.memory = r.memory,
                                       !.expiration = r.expiration,
                                       !.changes = @ + r.changes,
                                       !.executed = Append(@, cmd)]
             Replied(r, st1) ==
                 IF r.reply = EXCEPTION THEN [st1 EXCEPT !.alive = FALSE]
                 ELSE RunCommands([st1 EXCEPT !.out = IF r.reply = NoReply THEN @
                                                     ELSE Append(@, Utf8Encode(r.reply)),
                                              !.offset = @ + lengths[index]],
                                  commands, lengths, index + 1, t)
             Run(r) == Replied(r, Executed(r))
         IN Run(Execute(st.memory, st.expiration, t, cmd,
                        CHOOSE v \in Picks(st.memory, IF cmd = <<>> THEN <<T.GET>> ELSE cmd) : TRUE))

\* handle_request: every read is parsed on its own; "if not command_list: return".
handle_request(st, data, t) ==
    LET p == parse_redis_protocol(data)
    IN IF p.commands = <<>> THEN st
       ELSE RunCommands(st, p.commands, p.lengths, 1, t)

\* One iteration of process_request's loop: a read and its handling.
Read(i) ==
    /\ run[i].alive
    /\ run[i].reads # <<>>
    /\ run' = [run EXCEPT ![i] =
                  handle_request([@ EXCEPT !.reads = Tail(@)], Head(run[i].reads), now)]
    /\ UNCHANGED script
    /\ UNCHANGED <<kvVars, replVars, codecVars, streamVars, saveVars, bootVars>>

MaxScript == 3
MaxSplit == 2
ConnCommands ==
    { <<T.SET, <<"x">>, <<"a">>>>, <<T.SET, <<"x">>, <<"b">>>>, <<T.GET, <<"x">>>>,
      <<T.APPEND, <<"x">>, <<"b">>>>, <<T.LPUSH, <<"y">>, <<"a">>>>,
      <<T.LPOP, <<"y">>>>, <<T.SADD, <<"y">>, <<"a">>>>, <<T.SPOP, <<"y">>>>,
      <<T.GET>>, <<T.FOO>>, <<T.SET, <<CR, LF, "$", "x">>, <<"a">>>> }

Frames(cmds) == [i \in 1..Len(cmds) |-> encode_redis_protocol(cmds[i])]

\* Every way of handing whole frames to the reads of a connection.
RECURSIVE Groupings(_)
Groupings(frames) ==
    IF Len(frames) <= 1 THEN {frames}
    ELSE LET rest == Groupings(Tail(frames))
         IN {<<Head(frames)>> \o g : g \in rest}
            \cup {<<Head(frames) \o Head(g)>> \o Tail(g) : g \in rest}

\* Every way of cutting a byte stream into two non-empty reads.
Splits(stream) ==
    {<<SubSeq(stream, 1, c), SubSeq(stream, c + 1, Len(stream))>> :
        c \in 1..(Len(stream) - 1)}

RunDone(i) == run[i].reads = <<>> \/ ~run[i].alive

\* Server 1 gets one command per read, server 2 the same frames grouped freely.
InitBatch ==
    /\ script \in SeqsUpTo(ConnCommands, MaxScript)
    /\ \E g \in Groupings(Frames(script)) :
          run = <<NewRun(Frames(script)), NewRun(g)>>

\* Server 1 gets one command per read, server 2 the same bytes cut anywhere.
InitSplit ==
    /\ script \in SeqsUpTo(ConnCommands, MaxSplit) \ {<<>>}
    /\ \E g \in Splits(Flatten(Frames(script))) :
          run = <<NewRun(Frames(script)), NewRun(g)>>

NextConn == \E i \in {1, 2} : Read(i)
BatchInit == InitStore /\ InitRepl /\ InitBatch /\ NoCodec /\ NoStream /\ NoSave /\ NoBoot
SpecBatch == BatchInit /\ [][NextConn]_vars
SplitInit == InitStore /\ InitRepl /\ InitSplit /\ NoCodec /\ NoStream /\ NoSave /\ NoBoot
SpecSplit == SplitInit /\ [][NextConn]_vars

\* C7: once both servers have consumed the script, their keyspaces and the
\* replies they wrote are the same, however the frames were grouped into reads.
C7_BatchingIndependence ==
    (RunDone(1) /\ RunDone(2))
        => /\ run[1].memory = run[2].memory
           /\ run[1].expiration = run[2].expiration
           /\ Flatten(run[1].out) = Flatten(run[2].out)

\* C8: a read that ends inside a frame executes nothing of that frame; the frame
\* is executed once, whole, when its rest has arrived, after the complete
\* commands before it.  So what server 2 executed is always a prefix of the
\* script, and at the end it is what server 1 executed.
C8_IncompleteFramesBuffered ==
    /\ Len(run) = 2
          => /\ Len(run[2].executed) <= Len(script)
             /\ \A i \in 1..Len(run[2].executed) : run[2].executed[i] = script[i]
    /\ (Len(run) = 2 /\ RunDone(1) /\ RunDone(2))
          => /\ run[2].executed = run[1].executed
             /\ run[2].memory = run[1].memory

(***************************************************************************)
(* Replication on the primary: commands.py ReplConfCommand, PSyncCommand,  *)
(* WaitCommand and the propagation loop of SetCommand.  drain() suspends   *)
(* the task only while the writer's transport is paused.                   *)
(***************************************************************************)
MaxWriters == 2
MaxAcks == 1
MaxApplied == 2
MaxWire == 2
\* asyncio.sleep(0.1): one tick of the clock of this specification is 100 ms.
TickMs == 100

\* b"*3\r\n$8\r\nREPLCONF\r\n$6\r\nGETACK\r\n$1\r\n*\r\n"
GetAckFrame == encode_redis_protocol(<<T.REPLCONF, T.GETACK, <<"*">>>>)
\* "for writer in handler.server.writers: writer.write(...); await writer.drain()"
\* from the writer at index i on: the loop runs until a drain() suspends it.  The
\* result is the bytes written and the index it is suspended at, 0 if it ended.
RECURSIVE WriteLoop(_, _, _, _, _)
WriteLoop(w, ws, ps, i, entry) ==
    IF i > Len(ws) THEN [wire |-> w, at |-> 0]
    ELSE LET w1 == [w EXCEPT ![ws[i]] = Append(@, entry)]
         IN IF ws[i] \in ps THEN [wire |-> w1, at |-> i]
            ELSE WriteLoop(w1, ws, ps, i + 1, entry)

RoomOnWire == \A r \in Replicas : Len(wire[r]) < MaxWire

\* REPLCONF listening-port <port> from a connection that has not registered yet:
\* its writer joins server.writers.  The replies to a replica's own commands
\* (+OK here, the snapshot of PSYNC) are no part of its replication stream and
\* are not recorded.
ReplConfListen(r) ==
    /\ Len(writers) < MaxWriters
    /\ r \notin Range(writers)
    /\ writers' = Append(writers, r)
    /\ UNCHANGED <<numacks, wire, task, paused, applied>>
    /\ UNCHANGED <<kvVars, connVars, codecVars, streamVars, saveVars, bootVars>>

\* PSYNC on a registered connection whose transport is not paused: the snapshot
\* is written to it, numacks is incremented and the handler returns "".
PSync(r) ==
    /\ r \in Range(writers)
    /\ r \notin paused
    /\ numacks < MaxAcks
    /\ numacks' = numacks + 1
    /\ UNCHANGED <<writers, wire, task, paused, applied>>
    /\ UNCHANGED <<kvVars, connVars, codecVars, streamVars, saveVars, bootVars>>

\* REPLCONF ACK <offset> from a registered replica.
ReplConfAck(r) ==
    /\ r \in Range(writers)
    /\ numacks < MaxAcks
    /\ numacks' = numacks + 1
    /\ UNCHANGED task
    /\ UNCHANGED <<writers, wire, paused, applied>>
    /\ UNCHANGED <<kvVars, connVars, codecVars, streamVars, saveVars, bootVars>>

\* The transport of a registered replica goes over its high-water mark (the
\* replica has stopped reading) or comes back under the low-water mark.
Stall(r) ==
    /\ r \notin paused
    /\ r \in Range(writers)
    /\ paused' = paused \cup {r}
    /\ UNCHANGED <<writers, numacks, wire, task, applied>>
    /\ UNCHANGED <<kvVars, connVars, codecVars, streamVars, saveVars, bootVars>>

Unstall(r) ==
    /\ r \in paused
    /\ paused' = paused \ {r}
    /\ UNCHANGED <<writers, numacks, wire, task, applied>>
    /\ UNCHANGED <<kvVars, connVars, codecVars, streamVars, saveVars, bootVars>>

\* SetCommand.execute from a client: the store is written, numacks reset, and the
\* command as received is re-encoded and written to every writer in turn.
SetBegin(c, cmd) ==
    /\ task[c].pc = "idle"
    /\ Len(applied) < MaxApplied
    /\ RoomOnWire
    /\ \E r \in {SetCommand(memory, expiration, now, cmd)} :
       \E l \in {WriteLoop(wire, writers, paused, 1,
                           [data |-> encode_redis_protocol(cmd), of |-> Len(applied) + 1])} :
          /\ changes + r.changes <= MaxChanges
          /\ memory' = r.memory
          /\ expiration' = r.expiration
          /\ changes' = changes + r.changes
          /\ numacks' = 0
          /\ applied' = Append(applied, [cmd |-> cmd, targets |-> Range(writers)])
          /\ wire' = l.wire
          /\ task' = [task EXCEPT ![c] =
                         IF l.at = 0 THEN Idle(r.reply)
                         ELSE [Idle(NoReply) EXCEPT
                                  !.pc = "set", !.at = l.at,
                                  !.entry = [data |-> encode_redis_protocol(cmd),
                                             of |-> Len(applied) + 1]]]
    /\ UNCHANGED <<now, request, before, reply, writers, paused>>
    /\ UNCHANGED <<connVars, codecVars, streamVars, saveVars, bootVars>>

\* The drain() a SET was suspended in returns: the loop goes on with the next
\* writer of server.writers as it is now.
SetResume(c) ==
    /\ task[c].pc = "set"
    /\ writers[task[c].at] \notin paused
    /\ \E l \in {WriteLoop(wire, writers, paused, task[c].at + 1, task[c].entry)} :
          /\ wire' = l.wire
          /\ task' = [task EXCEPT ![c] =
                         IF l.at = 0 THEN Idle(OK_RESPONSE)
                         ELSE [@ EXCEPT !.at = l.at]]
    /\ UNCHANGED <<writers, numacks, paused, applied>>
    /\ UNCHANGED <<kvVars, connVars, codecVars, streamVars, saveVars, bootVars>>

\* Any other command that writes to the keyspace: its handler has no
\* suspension point and touches neither server.writers nor numacks.
Mutate(c, cmd) ==
    /\ task[c].pc = "idle"
    /\ Len(applied) < MaxApplied
    /\ \E pick \in Picks(memory, cmd) :
       \E r \in {Execute(memory, expiration, now, cmd, pick)} :
          /\ WithinBounds(r.memory)
          /\ r.memory # memory
          /\ memory' = r.memory
          /\ expiration' = r.expiration
          /\ task' = [task EXCEPT ![c] = Idle(r.reply)]
    /\ applied' = Append(applied, [cmd |-> cmd, targets |-> Range(writers)])
    /\ UNCHANGED <<changes, now, request, before, reply, writers, numacks, wire, paused>>
    /\ UNCHANGED <<connVars, codecVars, streamVars, saveVars, bootVars>>

\* WaitCommand after the GETACK broadcast: start_time = time.time(), then the
\* "while numacks < num_replicas and elapsed < max_wait_ms / 1000" test, which
\* either sleeps 0.1 s or returns the counter.
WaitTest(t, start) ==
    IF numacks < t.n /\ (now - start) * TickMs < t.ms
    THEN [t EXCEPT !.pc = "wait_poll", !.at = 0, !.start = start, !.wake = now + 1]
    ELSE Idle(IntReply(numacks))

WaitBegin(c, cmd) ==
    /\ task[c].pc = "idle"
    /\ RoomOnWire
    /\ \E l \in {WriteLoop(wire, writers, paused, 1, [data |-> GetAckFrame, of |-> 0])} :
       \E t \in {[Idle(NoReply) EXCEPT !.n = IntOf(cmd[2]), !.ms = IntOf(cmd[3]),
                                       !.issued = now]} :
          /\ wire' = l.wire
          /\ task' = [task EXCEPT ![c] =
                         IF l.at = 0 THEN WaitTest(t, now)
                         ELSE [t EXCEPT !.pc = "wait_send", !.at = l.at]]
    /\ UNCHANGED <<writers, numacks, paused, applied>>
    /\ UNCHANGED <<kvVars, connVars, codecVars, streamVars, saveVars, bootVars>>

\* The drain() a WAIT was suspended in returns.
WaitResume(c) ==
    /\ task[c].pc = "wait_send"
    /\ writers[task[c].at] \notin paused
    /\ \E l \in {WriteLoop(wire, writers, paused, task[c].at + 1,
                           [data |-> GetAckFrame, of |-> 0])} :
          /\ wire' = l.wire
          /\ task' = [task EXCEPT ![c] =
                         IF l.at = 0 THEN WaitTest(@, now)
                         ELSE [@ EXCEPT !.at = l.at]]
    /\ UNCHANGED <<writers, numacks, paused, applied>>
    /\ UNCHANGED <<kvVars, connVars, codecVars, streamVars, saveVars, bootVars>>

\* asyncio.sleep(0.1) returns and the loop tests again.
WaitWake(c) ==
    /\ task[c].pc = "wait_poll"
    /\ task[c].wake <= now
    /\ task' = [task EXCEPT ![c] = WaitTest(@, task[c].start)]
    /\ UNCHANGED <<writers, numacks, wire, paused, applied>>
    /\ UNCHANGED <<kvVars, connVars, codecVars, streamVars, saveVars, bootVars>>

SetOf(c) == IF c = "c1" THEN <<T.SET, <<"x">>, <<"a">>>> ELSE <<T.SET, <<"x">>, <<"b">>>>
UnpropagatedWriters == {<<T.LPUSH, <<"y">>, <<"a">>>>}
WaitCommands == {<<T.WAIT, One, <<"1", "0", "0">>>>, <<T.WAIT, One, Zero>>}

NextRepl ==
    \/ \E r \in Replicas :
          ReplConfListen(r) \/ PSync(r) \/ ReplConfAck(r) \/ Stall(r) \/ Unstall(r)
    \/ \E c \in Clients :
          \/ SetBegin(c, SetOf(c))
          \/ SetResume(c)
          \/ WaitResume(c)
          \/ WaitWake(c)
    \/ \E cmd \in UnpropagatedWriters : Mutate("c1", cmd)
    \/ \E cmd \in WaitCommands : WaitBegin("c2", cmd)
    \/ Tick
SpecRepl == Init /\ [][NextRepl]_vars

(***************************************************************************)
(* Claims about replication                                                *)
(***************************************************************************)
\* C4: once no propagation loop is under way, every command that changed the
\* keyspace is found, byte for byte as encode_redis_protocol renders it, in the
\* stream of every replica that was registered when it was applied.
C4_PropagationComplete ==
    (\A c \in Clients : task[c].pc # "set")
        => \A i \in 1..Len(applied) :
              \A r \in applied[i].targets :
                 \E j \in 1..Len(wire[r]) :
                    wire[r][j].data = encode_redis_protocol(applied[i].cmd)

\* C5: every replica's stream holds the propagated commands in the order in
\* which the primary applied them, also when SETs of different connections
\* interleave at the drain() suspension points.
C5_PropagationOrder ==
    \A r \in Replicas :
       \A i, j \in 1..Len(wire[r]) :
          (i < j /\ wire[r][i].of > 0 /\ wire[r][j].of > 0)
              => wire[r][i].of < wire[r][j].of

\* C6: a WAIT n ms is answered at the latest once ms have elapsed since it was
\* issued: no WAIT is still unanswered after its budget.
C6_WaitTerminates ==
    \A c \in Clients :
       task[c].pc \in {"wait_send", "wait_poll"}
           => (now - task[c].issued) * TickMs <= task[c].ms

(***************************************************************************)
(* Streams: utils/stream_utils.py and commands/stream_commands.py.         *)
(* server.streamstore is a dict key -> {entry number -> {sequence number   *)
(* -> fields}}; a dict keeps insertion order, so each level is modelled as *)
(* the sequence of its items.                                              *)
(***************************************************************************)
\* The characters of stream ids, in code point order, for str comparison.
OrdChars == <<"*", "-", "0", "1", "2", "3", "4", "5", "6", "7", "8", "9", "x">>
Ord(c) == CHOOSE i \in 1..Len(OrdChars) : OrdChars[i] = c
\* a <= b on str
RECURSIVE StrLE(_, _)
StrLE(a, b) ==
    IF a = <<>> THEN TRUE
    ELSE IF b = <<>> THEN FALSE
    ELSE IF Head(a) = Head(b) THEN StrLE(Tail(a), Tail(b))
    ELSE Ord(Head(a)) < Ord(Head(b))

\* str.split("-")
RECURSIVE SplitDash(_, _, _)
SplitDash(text, cur, acc) ==
    IF text = <<>> THEN Append(acc, cur)
    ELSE IF Head(text) = "-" THEN SplitDash(Tail(text), <<>>, Append(acc, cur))
    ELSE SplitDash(Tail(text), Append(cur, Head(text)), acc)
Split(text) == SplitDash(text, <<>>, <<>>)

Star == <<"*">>
ZeroZero == <<"0", "-", "0">>
ID_NOT_ABOVE_ZERO ==
    <<"-ERR The ID specified in XADD must be greater than 0-0", CR, LF>>
ID_NOT_ABOVE_TOP ==
    <<"-ERR The ID specified in XADD is equal or smaller than the target stream top item",
      CR, LF>>

\* list(d.keys())[-1] of the outer and of the inner dict
LastNumber(stream) == stream[Len(stream)].number
LastSequence(stream) ==
    LET inner == stream[Len(stream)].seqs IN inner[Len(inner)].seq

_is_valid_id(parts) == Len(parts) = 2 /\ AllDigits(parts[1]) /\ AllDigits(parts[2])
_is_time_star(parts) == Len(parts) = 2 /\ AllDigits(parts[1]) /\ parts[2] = Star

_calculate_sequence_number(store, stream_key, timestamp) ==
    IF Has(store, stream_key)
    THEN IF LastNumber(store[stream_key]) < timestamp THEN 0
         ELSE LastSequence(store[stream_key]) + 1
    ELSE IF timestamp = 0 THEN 1 ELSE 0

_generate_time_star_id(store, stream_key, parts) ==
    Dec(IntOf(parts[1])) \o <<"-">>
        \o Dec(_calculate_sequence_number(store, stream_key, IntOf(parts[1])))

\* int(time.time() * 1000): the clock of the model counts milliseconds here.
_generate_star_id(store, stream_key, t) ==
    Dec(t) \o <<"-">> \o Dec(_calculate_sequence_number(store, stream_key, t))

generate_stream_id(store, stream_key, stream_id, t) ==
    LET parts == Split(stream_id)
    IN IF _is_valid_id(parts) THEN stream_id
       ELSE IF _is_time_star(parts) THEN _generate_time_star_id(store, stream_key, parts)
       ELSE IF stream_id = Star \/ (parts[1] = Star /\ parts[2] = Star)
       THEN _generate_star_id(store, stream_key, t)
       ELSE <<>>

\* A validate_stream_id that refuses only a smaller sequence number, not an
\* equal one.
validate_stream_id_admits_equal(store, stream_key, stream_id) ==
    IF StrLE(stream_id, ZeroZero) THEN ID_NOT_ABOVE_ZERO
    ELSE IF ~Has(store, stream_key) THEN <<>>
    ELSE LET current_entry_number == IntOf(Split(stream_id)[1])
             current_entry_sequence == IntOf(Split(stream_id)[2])
             last_entry_number == LastNumber(store[stream_key])
             last_entry_sequence == LastSequence(store[stream_key])
         IN IF current_entry_number < last_entry_number THEN ID_NOT_ABOVE_TOP
            ELSE IF /\ current_entry_number = last_entry_number
                    /\ current_entry_sequence < last_entry_sequence
            THEN ID_NOT_ABOVE_TOP
            ELSE <<>>

\* The error reply, or "" when the id is accepted.
validate_stream_id(store, stream_key, stream_id) ==
    IF StrLE(stream_id, ZeroZero) THEN ID_NOT_ABOVE_ZERO
    ELSE IF ~Has(store, stream_key) THEN <<>>
    ELSE LET current_entry_number == IntOf(Split(stream_id)[1])
             current_entry_sequence == IntOf(Split(stream_id)[2])
             last_entry_number == LastNumber(store[stream_key])
             last_entry_sequence == LastSequence(store[stream_key])
         IN IF current_entry_number < last_entry_number THEN ID_NOT_ABOVE_TOP
            ELSE IF /\ current_entry_number = last_entry_number
                    /\ current_entry_sequence <= last_entry_sequence
            THEN ID_NOT_ABOVE_TOP
            ELSE <<>>

\* streamstore[key][entry_number][sequence_number] = fields, creating the inner
\* dict when the entry number is new: a new key goes to the end, an existing one
\* keeps its place.
PutSequence(inner, k, fields) ==
    IF \E j \in 1..Len(inner) : inner[j].seq = k
    THEN [j \in 1..Len(inner) |->
             IF inner[j].seq = k THEN [seq |-> k, fields |-> fields] ELSE inner[j]]
    ELSE Append(inner, [seq |-> k, fields |-> fields])
PutEntry(stream, n, k, fields) ==
    IF \E i \in 1..Len(stream) : stream[i].number = n
    THEN [i \in 1..Len(stream) |->
             IF stream[i].number = n
             THEN [number |-> n, seqs |-> PutSequence(stream[i].seqs, k, fields)]
             ELSE stream[i]]
    ELSE Append(stream, [number |-> n, seqs |-> <<[seq |-> k, fields |-> fields]>>])

\* XAddCommand.execute: the store after it, the reply, and the id it inserted.
XAddCommand(store, t, command) ==
    LET stream_key == command[2]
        stream_id == generate_stream_id(store, stream_key, command[3], t)
        err_message == validate_stream_id(store, stream_key, stream_id)
        entry_number == IntOf(Split(stream_id)[1])
        sequence_number == IntOf(Split(stream_id)[2])
        stream == IF Has(store, stream_key) THEN store[stream_key] ELSE <<>>
    IN IF err_message # <<>>
       THEN [store |-> store, reply |-> err_message, inserted |-> <<>>]
       ELSE [store |-> Put(store, stream_key,
                           PutEntry(stream, entry_number, sequence_number,
                                    SubSeq(command, 4, Len(command)))),
             reply |-> Bulk(stream_id),
             inserted |-> <<[id |-> <<entry_number, sequence_number>>,
                             asked |-> command[3]]>>]

MaxEntries == 3
StreamKeys == {<<"s">>}
StreamIds ==
    { ZeroZero, <<"0", "-", "1">>, <<"1", "-", "0">>, <<"1", "-", "1">>,
      <<"2", "-", "0">>, <<"0", "0", "-", "0">>, <<"0", "-", "*">>, <<"1", "-", "*">>,
      <<"2", "-", "*">>, Star, <<"x">> }
XAddCommands == {<<T.XADD, k, i, <<"f">>, <<"v">>>> : k \in StreamKeys, i \in StreamIds}

InitStream ==
    /\ streamstore = EmptyDict
    /\ xlog = [k \in StreamKeys |-> <<>>]
    /\ xreply = NoReply
    /\ xrequest = <<>>
    /\ xbefore = EmptyDict
    /\ xtask = XIdle

\* One XADD handled.  xlog keeps, per stream, the ids in the order in which they
\* were inserted, the id text each was asked with and the time of the insertion.
XAdd(cmd) ==
    /\ Len(xlog[cmd[2]]) < MaxEntries
    /\ \E r \in {XAddCommand(streamstore, now, cmd)} :
          /\ streamstore' = r.store
          /\ xreply' = r.reply
          /\ xlog' = [xlog EXCEPT ![cmd[2]] =
                          @ \o [i \in 1..Len(r.inserted) |->
                                   [id |-> r.inserted[i].id,
                                    asked |-> r.inserted[i].asked, at |-> now]]]
          /\ xrequest' = cmd
          /\ xbefore' = streamstore
          /\ UNCHANGED xtask
    /\ UNCHANGED <<kvVars, replVars, connVars, codecVars, saveVars, bootVars>>

NextStream == (\E cmd \in XAddCommands : XAdd(cmd)) \/ Tick
StreamInit == InitStore /\ InitRepl /\ NoConn /\ NoCodec /\ InitStream /\ NoSave /\ NoBoot
SpecStream == StreamInit /\ [][NextStream]_vars

IdLess(a, b) == a[1] < b[1] \/ (a[1] = b[1] /\ a[2] < b[2])
\* The ids held by a stream, in the order in which the two levels of dicts list
\* them.
StoredIds(stream) ==
    Flatten([i \in 1..Len(stream) |->
                [j \in 1..Len(stream[i].seqs) |->
                    <<stream[i].number, stream[i].seqs[j].seq>>]])

\* C10: after any sequence of XADDs, with literal ids, <ms>-* and *, accepted or
\* rejected, the ids of each stream are strictly increasing in (ms, seq) order in
\* the order in which they were inserted, so no two entries share an id; the
\* stream holds exactly the inserted entries, in that order.
C10_StreamIdsIncrease ==
    \A k \in DOMAIN xlog :
       /\ \A i, j \in 1..Len(xlog[k]) :
             i < j => IdLess(xlog[k][i].id, xlog[k][j].id)
       /\ StoredIds(IF Has(streamstore, k) THEN streamstore[k] ELSE <<>>)
             = [i \in 1..Len(xlog[k]) |-> xlog[k][i].id]

\* A stream holds three entries, one asked with a literal id, one with <ms>-*
\* and one with *.
C10_Witness ==
    \E k \in DOMAIN xlog :
       /\ Len(xlog[k]) = MaxEntries
       /\ \E i \in 1..Len(xlog[k]) : xlog[k][i].asked = Star
       /\ \E i \in 1..Len(xlog[k]) : _is_time_star(Split(xlog[k][i].asked))
       /\ \E i \in 1..Len(xlog[k]) : _is_valid_id(Split(xlog[k][i].asked))

(***************************************************************************)
(* Claims about XADD with a literal id                                     *)
(***************************************************************************)
StreamOf(store, k) == IF Has(store, k) THEN store[k] ELSE <<>>
LiteralXAdd == xrequest # <<>> /\ _is_valid_id(Split(xrequest[3]))
AskedId == <<IntOf(Split(xrequest[3])[1]), IntOf(Split(xrequest[3])[2])>>
\* The last id of the stream the command found, (0, 0) for a new stream.
TopBefore ==
    LET ids == StoredIds(StreamOf(xbefore, xrequest[2]))
    IN IF ids = <<>> THEN <<0, 0>> ELSE ids[Len(ids)]

\* C11: an XADD with a literal id ms-seq is accepted (the id is replied and
\* appended to the stream) iff (ms, seq) is above the stream's last id, above
\* (0, 0) on a new stream; a rejected one replies the "equal or smaller" error
\* (or, for a zero id, the "greater than 0-0" error) and leaves the streams as
\* they were; no stream ever holds an entry whose id is numerically (0, 0).
C11_LiteralIds ==
    /\ LiteralXAdd
          => IF IdLess(TopBefore, AskedId)
             THEN /\ xreply = Bulk(xrequest[3])
                  /\ StoredIds(StreamOf(streamstore, xrequest[2]))
                        = Append(StoredIds(StreamOf(xbefore, xrequest[2])), AskedId)
             ELSE /\ xreply \in {ID_NOT_ABOVE_TOP}
                                   \cup (IF AskedId = <<0, 0>>
                                         THEN {ID_NOT_ABOVE_ZERO} ELSE {})
                  /\ streamstore = xbefore
    /\ \A k \in DOMAIN streamstore :
          \A i \in 1..Len(StoredIds(streamstore[k])) :
             StoredIds(streamstore[k])[i] # <<0, 0>>

(***************************************************************************)
(* XRANGE: commands/stream_commands.py XRangeCommand and the index helpers *)
(* of utils/stream_utils.py.  Indices are 0-based as in the code.          *)
(***************************************************************************)
NONE_STRING == <<"+", "n", "o", "n", "e", CR, LF>>
Minus == <<"-">>
Plus == <<"+">>

\* bisect.bisect_left / bisect_right on a list in ascending order, which the
\* keys of a stream's dicts are: the number of elements below x / not above x.
bisect_left(list, x) == Cardinality({i \in 1..Len(list) : list[i] < x})
bisect_right(list, x) == Cardinality({i \in 1..Len(list) : list[i] <= x})

\* list(streamstore.keys()) and list(streamstore[keys[i]].keys())
OuterKeys(stream) == [i \in 1..Len(stream) |-> stream[i].number]
InnerKeys(stream, i) == [j \in 1..Len(stream[i + 1].seqs) |-> stream[i + 1].seqs[j].seq]

find_outer_indices(keys, lower_outer, upper_outer) ==
    LET start_index == bisect_left(keys, lower_outer)
        end_index == bisect_right(keys, upper_outer) - 1
    IN IF start_index >= Len(keys) \/ end_index < 0 THEN <<-1, -1>>
       ELSE <<start_index, end_index>>

\* "start_index += 1" changes the function's own copy only.
find_inner_start_index(stream, keys, start_index, lower_outer, lower_inner) ==
    IF keys[start_index + 1] = lower_outer
    THEN LET i == bisect_left(InnerKeys(stream, start_index), lower_inner)
         IN IF i = Len(InnerKeys(stream, start_index))
            THEN IF start_index + 1 >= Len(keys) THEN -1 ELSE 0
            ELSE i
    ELSE 0

find_inner_end_index(stream, keys, end_index, upper_outer, upper_inner) ==
    IF keys[end_index + 1] = upper_outer
    THEN LET i == bisect_right(InnerKeys(stream, end_index), upper_inner) - 1
         IN IF i = -1
            THEN IF end_index - 1 < 0 THEN -1
                 ELSE Len(InnerKeys(stream, end_index - 1)) - 1
            ELSE i
    ELSE Len(InnerKeys(stream, end_index)) - 1

\* The ids of ret_dict in insertion order; ok is FALSE when streamstore_keys[i]
\* raises IndexError.  With several entry numbers the assignment stands after
\* the inner loop, whose "continue" skips nothing: each entry number gives its
\* last sequence number only.
extract_elements(stream, keys, start_index, end_index, inner_start, inner_end) ==
    IF start_index = end_index
    THEN LET streamstore_keys == InnerKeys(stream, start_index)
         IN IF inner_start > inner_end THEN [ok |-> TRUE, ids |-> <<>>]
            ELSE IF inner_end >= Len(streamstore_keys) THEN [ok |-> FALSE, ids |-> <<>>]
            ELSE [ok |-> TRUE,
                  ids |-> [n \in 1..(inner_end - inner_start + 1) |->
                              <<keys[start_index + 1], streamstore_keys[inner_start + n]>>]]
    ELSE [ok |-> TRUE,
          ids |-> [n \in 1..(end_index - start_index + 1) |->
                      LET i == start_index + n - 1
                          streamstore_keys == InnerKeys(stream, i)
                      IN <<keys[i + 1], streamstore_keys[Len(streamstore_keys)]>>]]

\* The selection shared by XRangeCommand.execute and get_one_xread_response,
\* from find_outer_indices to extract_elements: none is TRUE where the code
\* returns its none_string.
SelectElements(stream, lower_outer, lower_inner, upper_outer, upper_inner) ==
    LET keys == OuterKeys(stream)
        outer == find_outer_indices(keys, lower_outer, upper_outer)
        start_index == outer[1]
        end_index == outer[2]
    IN IF start_index = -1 \/ end_index = -1 \/ start_index > end_index
       THEN [none |-> TRUE, ok |-> TRUE, ids |-> <<>>]
       ELSE LET inner_start == find_inner_start_index(stream, keys, start_index,
                                                      lower_outer, lower_inner)
                inner_end == find_inner_end_index(stream, keys, end_index,
                                                  upper_outer, upper_inner)
            IN IF inner_start = -1 \/ inner_end = -1
               THEN [none |-> TRUE, ok |-> TRUE, ids |-> <<>>]
               ELSE [none |-> FALSE] @@ extract_elements(stream, keys, start_index,
                                            end_index, inner_start, inner_end)

\* The elements XRangeCommand.execute selects.
XRangeElements(store, command) ==
    LET stream == store[command[2]]
        lower == IF command[3] = Minus THEN ZeroZero ELSE command[3]
        upper == IF command[4] = Plus
                 THEN Dec(LastNumber(stream)) \o Minus \o Dec(LastSequence(stream))
                 ELSE command[4]
    IN SelectElements(stream, IntOf(Split(lower)[1]), IntOf(Split(lower)[2]),
                      IntOf(Split(upper)[1]), IntOf(Split(upper)[2]))

\* XRangeCommand.execute.  A bound that is no <int>-<int> makes int() or the
\* index raise; an AsyncServer has no attribute as_array, so rendering the first
\* element raises AttributeError.
XRangeCommand(store, command) ==
    IF ~Has(store, command[2]) THEN NONE_STRING
    ELSE IF \/ ~(command[3] = Minus \/ _is_valid_id(Split(command[3])))
            \/ ~(command[4] = Plus \/ _is_valid_id(Split(command[4])))
    THEN EXCEPTION
    ELSE LET e == XRangeElements(store, command)
         IN IF e.none THEN NONE_STRING
            ELSE IF ~e.ok THEN EXCEPTION
            ELSE IF e.ids = <<>> THEN <<"*">> \o Dec(0) \o CRLF
            ELSE EXCEPTION

\* encoding_utils.as_array on a list of texts.
as_array(items) ==
    IF items = <<>> THEN EMPTY_ARRAY_RESPONSE
    ELSE <<"*">> \o Dec(Len(items)) \o CRLF
         \o Flatten([i \in 1..Len(items) |-> Bulk(items[i])])

\* One XRANGE handled: the streams are only read.
XRange(cmd) ==
    /\ xreply' = XRangeCommand(streamstore, cmd)
    /\ xrequest' = cmd
    /\ xbefore' = streamstore
    /\ UNCHANGED <<streamstore, xlog, xtask>>
    /\ UNCHANGED <<kvVars, replVars, connVars, codecVars, saveVars, bootVars>>

LiteralStreamIds ==
    {<<"0", "-", "1">>, <<"1", "-", "0">>, <<"1", "-", "1">>, <<"2", "-", "0">>,
     <<"2", "-", "1">>}
LiteralXAdds ==
    {<<T.XADD, k, i, <<"f">>, <<"v">>>> : k \in StreamKeys, i \in LiteralStreamIds}
XRangeCommands ==
    {<<T.XRANGE, k, lo, hi>> : k \in StreamKeys,
                                lo \in {Minus} \cup LiteralStreamIds,
                                hi \in {Plus} \cup LiteralStreamIds}

NextRange ==
    \/ \E cmd \in LiteralXAdds : XAdd(cmd)
    \/ \E cmd \in XRangeCommands : XRange(cmd)
SpecRange == StreamInit /\ [][NextRange]_vars

(***************************************************************************)
(* Claims about XRANGE                                                     *)
(***************************************************************************)
IdLE(a, b) == a = b \/ IdLess(a, b)
\* The entries of a stream, id and fields, in the order of its dicts.
Entries(stream) ==
    Flatten([i \in 1..Len(stream) |->
                [j \in 1..Len(stream[i].seqs) |->
                    [id |-> <<stream[i].number, stream[i].seqs[j].seq>>,
                     fields |-> stream[i].seqs[j].fields]]])
IdOf(text) == <<IntOf(Split(text)[1]), IntOf(Split(text)[2])>>
IdText(id) == Dec(id[1]) \o Minus \o Dec(id[2])
\* The entries XRANGE key lo hi has to return.
InRange(stream, lo, hi) ==
    LET all == Entries(stream)
        low == IF lo = Minus THEN <<0, 0>> ELSE IdOf(lo)
        high == IF hi = Plus THEN all[Len(all)].id ELSE IdOf(hi)
    IN SelectSeq(all, LAMBDA e : IdLE(low, e.id) /\ IdLE(e.id, high))
EntriesReply(es) ==
    <<"*">> \o Dec(Len(es)) \o CRLF
        \o Flatten([i \in 1..Len(es) |->
               <<"*", "2", CR, LF>> \o Bulk(IdText(es[i].id)) \o as_array(es[i].fields)])
IsXRange == xrequest # <<>> /\ xrequest[1] = T.XRANGE

\* C12: XRANGE key lo hi on an existing stream replies exactly the entries with
\* lo <= id <= hi, each once and in increasing id order ("-" and "+" being the
\* open bounds); an empty selection is replied as an empty array or as "+none".
C12_XRangeComplete ==
    (IsXRange /\ Has(xbefore, xrequest[2]))
        => LET es == InRange(xbefore[xrequest[2]], xrequest[3], xrequest[4])
           IN IF es = <<>>
              THEN xreply \in {NONE_STRING, EntriesReply(<<>>)}
              ELSE xreply = EntriesReply(es)

(***************************************************************************)
(* XREAD: commands/stream_commands.py XReadCommand and, in                 *)
(* utils/stream_utils.py, block_read, _get_stream_keys_and_ids,            *)
(* get_last_stream_id and get_one_xread_response.  One tick of the clock   *)
(* is TickMs milliseconds.                                                 *)
(***************************************************************************)
Dollar == <<"$">>
\* asyncio.sleep(0.05) of the BLOCK 0 loop, in milliseconds.
PollMs == 50

\* re.match(r'\d+-\d+', x) and re.match(r'\$', x): a match of a prefix of x.
IdLike(x) ==
    \E i \in 1..Len(x) :
        /\ AllDigits(SubSeq(x, 1, i))
        /\ Len(x) >= i + 2 /\ x[i + 1] = "-" /\ IsDigit(x[i + 2])
DollarLike(x) == x # <<>> /\ Head(x) = "$"

get_last_stream_id(store, stream_key) ==
    IF Has(store, stream_key) /\ store[stream_key] # <<>>
    THEN Dec(LastNumber(store[stream_key])) \o Minus
             \o Dec(LastSequence(store[stream_key]))
    ELSE <<>>

\* ok is FALSE when next(filter(...)) finds nothing and raises.
_get_stream_keys_and_ids(store, command) ==
    LET start_index == IF Lower(command[2]) = T.BLOCK THEN 5 ELSE 3
        dollars == {i \in 1..Len(command) : DollarLike(command[i])}
        idlikes == {i \in 1..Len(command) : IdLike(command[i])}
        First(S) == CHOOSE i \in S : \A j \in S : i <= j
    IN IF command[Len(command)] = Dollar
       THEN LET stream_keys == SubSeq(command, start_index, First(dollars) - 1)
            IN [ok |-> TRUE, keys |-> stream_keys,
                ids |-> [i \in 1..Len(stream_keys) |->
                            get_last_stream_id(store, stream_keys[i])]]
       ELSE IF idlikes = {} THEN [ok |-> FALSE, keys |-> <<>>, ids |-> <<>>]
       ELSE [ok |-> TRUE,
             keys |-> SubSeq(command, start_index, First(idlikes) - 1),
             ids |-> SelectSeq(SubSeq(command, start_index, Len(command)), IdLike)]

\* The reply for one stream, "$-1\r\n" when nothing is selected.  int() of a part
\* that is no number raises, and rendering a selected element raises
\* AttributeError, AsyncServer having no attribute as_array.
get_one_xread_response(store, stream_key, stream_id) ==
    LET parts == Split(stream_id)
    IN IF Len(parts) < 2 \/ ~IsInt(parts[1]) \/ ~IsInt(parts[2]) THEN EXCEPTION
       ELSE IF ~Has(store, stream_key) THEN NOT_FOUND_RESPONSE
       ELSE LET stream == store[stream_key]
                entry_number == IntOf(parts[1])
                present == \E e \in 1..Len(Entries(stream)) :
                               Entries(stream)[e].id = <<entry_number, IntOf(parts[2])>>
                sequence_number == IF present THEN IntOf(parts[2]) + 1
                                   ELSE IntOf(parts[2])
                e == SelectElements(stream, entry_number, sequence_number,
                                    LastNumber(stream), LastSequence(stream))
            IN IF e.none THEN NOT_FOUND_RESPONSE
               ELSE IF ~e.ok THEN EXCEPTION
               ELSE IF e.ids = <<>>
               THEN <<"*", "2", CR, LF>> \o Bulk(stream_key) \o <<"*">> \o Dec(0) \o CRLF
               ELSE EXCEPTION

\* zip(stream_keys, stream_ids)
Zip(keys, ids) ==
    [i \in 1..(IF Len(keys) < Len(ids) THEN Len(keys) ELSE Len(ids)) |->
        <<keys[i], ids[i]>>]

\* The for loop of block_read's "while not found": the first response that
\* raises ends it, the first one that is not "$-1\r\n" sets found.
RECURSIVE PollLoop(_, _, _)
PollLoop(store, pairs, i) ==
    IF i > Len(pairs) THEN "none"
    ELSE LET response == get_one_xread_response(store, pairs[i][1], pairs[i][2])
         IN IF response = EXCEPTION THEN "raise"
            ELSE IF response # NOT_FOUND_RESPONSE THEN "found"
            ELSE PollLoop(store, pairs, i + 1)

\* The reply XReadCommand.execute builds once block_read has returned.
XReadReply(store, keys, ids) ==
    LET pairs == Zip(keys, ids)
        responses == [i \in 1..Len(pairs) |->
                         get_one_xread_response(store, pairs[i][1], pairs[i][2])]
    IN IF \E i \in 1..Len(pairs) : responses[i] = EXCEPTION THEN EXCEPTION
       ELSE <<"*">> \o Dec(Len(keys)) \o CRLF \o Flatten(responses)

\* The task after the command has replied or raised.
XDone(t, r) ==
    [t EXCEPT !.pc = IF r = EXCEPTION THEN "dead" ELSE "done", !.reply = r]

\* One pass of the BLOCK 0 loop, up to its asyncio.sleep(0.05).
XPoll(t) ==
    LET outcome == PollLoop(streamstore, Zip(t.keys, t.ids), 1)
    IN IF outcome = "raise" THEN XDone(t, EXCEPTION)
       ELSE [t EXCEPT !.pc = IF outcome = "found" THEN "found" ELSE "poll",
                      !.wake = now + ((PollMs + TickMs - 1) \div TickMs)]

\* XREAD arrives on the reading connection: XReadCommand.execute up to its first
\* suspension, or to its reply when it does not block.
XReadBegin(cmd) ==
    /\ xtask.pc \in {"idle", "done"}
    /\ ~xtask.closed
    /\ \E ki \in {_get_stream_keys_and_ids(streamstore, cmd)} :
       \E t \in {[XIdle EXCEPT !.keys = ki.keys, !.ids = ki.ids]} :
          xtask' =
             IF ~ki.ok THEN XDone(t, EXCEPTION)
             ELSE IF Lower(cmd[2]) # T.BLOCK
             THEN XDone([t EXCEPT !.ms = -1], XReadReply(streamstore, ki.keys, ki.ids))
             ELSE IF IntOf(cmd[3]) > 0
             THEN [t EXCEPT !.pc = "sleep", !.ms = IntOf(cmd[3]),
                            !.wake = now + (IntOf(cmd[3]) \div TickMs)]
             ELSE XPoll(t)
    /\ UNCHANGED <<streamstore, xlog, xreply, xrequest, xbefore>>
    /\ UNCHANGED <<kvVars, replVars, connVars, codecVars, saveVars, bootVars>>

\* asyncio.sleep(block_time / 1000) returns: block_read returns and the reply is
\* built from the streams as they are now.
XReadWake ==
    /\ xtask.pc = "sleep"
    /\ xtask.wake <= now
    /\ xtask' = XDone(xtask, XReadReply(streamstore, xtask.keys, xtask.ids))
    /\ UNCHANGED <<streamstore, xlog, xreply, xrequest, xbefore>>
    /\ UNCHANGED <<kvVars, replVars, connVars, codecVars, saveVars, bootVars>>

\* asyncio.sleep(0.05) returns and "while not found" is tested: with found set the
\* loop ends and the reply is built, otherwise the loop polls again.
XReadPoll ==
    /\ xtask.pc \in {"poll", "found"}
    /\ xtask' = IF xtask.pc = "found"
                THEN XDone(xtask, XReadReply(streamstore, xtask.keys, xtask.ids))
                ELSE XPoll(xtask)
    /\ UNCHANGED <<streamstore, xlog, xreply, xrequest, xbefore>>
    /\ UNCHANGED <<kvVars, replVars, connVars, codecVars, saveVars, bootVars>>

\* The client closes the connection.  The task that serves it is suspended in
\* the command, not in reader.read(), and nothing cancels it.
XClose ==
    /\ ~xtask.closed
    /\ xtask' = [xtask EXCEPT !.closed = TRUE]
    /\ UNCHANGED <<streamstore, xlog, xreply, xrequest, xbefore>>
    /\ UNCHANGED <<kvVars, replVars, connVars, codecVars, saveVars, bootVars>>

XReadCommands ==
    {<<T.XREAD, T.BLOCK, ms, T.STREAMS, k, i>> :
        ms \in {Zero, <<"1", "0", "0">>, <<"3", "0", "0">>},
        k \in StreamKeys, i \in {ZeroZero, Dollar}}
    \cup {<<T.XREAD, T.STREAMS, k, ZeroZero>> : k \in StreamKeys}
ReadXAdds ==
    {<<T.XADD, k, i, <<"f">>, <<"v">>>> :
        k \in StreamKeys, i \in {<<"1", "-", "0">>, <<"2", "-", "0">>}}

NextRead ==
    \/ \E cmd \in ReadXAdds : XAdd(cmd)
    \/ \E cmd \in XReadCommands : XReadBegin(cmd)
    \/ XReadWake
    \/ XReadPoll
    \/ XClose
    \/ Tick
SpecRead == StreamInit /\ [][NextRead]_vars

\* The id a blocked XREAD waits above: the id it gave, or the tail of the stream
\* when it was called with "$" (below every id when the stream had no entry).
XStart(idtext) ==
    IF idtext = <<>> THEN <<-1, -1>>
    ELSE <<IntOf(Split(idtext)[1]), IntOf(Split(idtext)[2])>>
\* The entries added to the i-th stream of the blocked XREAD above its start id.
XMatches(i) ==
    {n \in 1..Len(xlog[xtask.keys[i]]) :
        IdLess(XStart(xtask.ids[i]), xlog[xtask.keys[i]][n].id)}
XBlocked == xtask.pc \in {"sleep", "poll", "found"}

\* C13: while XREAD BLOCK ms (ms > 0) is blocked, no entry above its start id has
\* been in a named stream for more than one tick: such an entry resumes the
\* command before the ms timer expires.
C13_BlockResumesOnEntry ==
    (xtask.pc = "sleep") =>
        \A i \in 1..Len(xtask.keys) : \A n \in XMatches(i) :
            now <= xlog[xtask.keys[i]][n].at + 1

\* The reply of XREAD with the matching entries of each named stream.
XReadExpected ==
    <<"*">> \o Dec(Len(xtask.keys)) \o CRLF \o
    Flatten([i \in 1..Len(xtask.keys) |->
        LET log == xlog[xtask.keys[i]]
            found == SelectSeq([n \in 1..Len(log) |-> n], LAMBDA n : n \in XMatches(i))
        IN <<"*", "2", CR, LF>> \o Bulk(xtask.keys[i])
             \o EntriesReply([n \in 1..Len(found) |->
                    [id |-> log[found[n]].id, fields |-> <<<<"f">>, <<"v">>>>]])])

\* C14: XREAD BLOCK 0 ends only by replying with the matching entries, never
\* while no named stream has an entry above its start id, and it does not stay
\* blocked for more than one tick once such an entry exists.
C14_BlockZeroWaits ==
    /\ (xtask.pc \in {"done", "dead"} /\ xtask.ms = 0) =>
          /\ \E i \in 1..Len(xtask.keys) : XMatches(i) # {}
          /\ xtask.reply = XReadExpected
    /\ (xtask.pc \in {"poll", "found"}) =>
          \A i \in 1..Len(xtask.keys) : \A n \in XMatches(i) :
              now <= xlog[xtask.keys[i]][n].at + 1

\* C15: once the client has closed its connection, its XREAD is blocked no more.
C15_CloseEndsBlock == xtask.closed => ~XBlocked

(***************************************************************************)
(* utils/rdb_writer.py and utils/rdb_parser.py.  A file is the sequence of *)
(* its bytes, each a number in 0..255.  A length is an int of up to 32     *)
(* bits and more than the checker's integers hold, so it is kept as its    *)
(* sign and its two 16-bit halves: the value is hi * 65536 + lo.           *)
(***************************************************************************)
Half == 65536
LenOf(n) == [neg |-> n < 0, hi |-> Abs(n) \div Half, lo |-> Abs(n) % Half]
IntOfLen(l) == IF l.neg THEN 0 - (l.hi * Half + l.lo) ELSE l.hi * Half + l.lo

\* a & b and a | b on non-negative ints
RECURSIVE BitAnd(_, _)
BitAnd(a, b) ==
    IF a = 0 \/ b = 0 THEN 0
    ELSE 2 * BitAnd(a \div 2, b \div 2) + (IF a % 2 = 1 /\ b % 2 = 1 THEN 1 ELSE 0)
RECURSIVE BitOr(_, _)
BitOr(a, b) ==
    IF a = 0 THEN b
    ELSE IF b = 0 THEN a
    ELSE 2 * BitOr(a \div 2, b \div 2) + (IF a % 2 = 1 \/ b % 2 = 1 THEN 1 ELSE 0)

\* struct.pack("<I", n) and struct.unpack("<I", b)[0]
pack_I(l) == <<l.lo % 256, l.lo \div 256, l.hi % 256, l.hi \div 256>>
unpack_I(b) == [neg |-> FALSE, hi |-> b[3] + 256 * b[4], lo |-> b[1] + 256 * b[2]]

\* The encoded bytes; state "failed" when ValueError is raised.
encode_length(length) ==
    IF length.neg THEN [state |-> "failed", bytes |-> <<>>]
    ELSE IF length.hi = 0 /\ length.lo <= 63
    THEN [state |-> "written", bytes |-> <<length.lo>>]
    ELSE IF length.hi = 0 /\ length.lo <= 16383
    THEN [state |-> "written",
          bytes |-> <<BitOr(64, length.lo \div 256), BitAnd(length.lo, 255)>>]
    ELSE [state |-> "written", bytes |-> <<128>> \o pack_I(length)]

\* The 14-bit form read without masking the two marker bits off the first byte.
read_length_keeps_marker(file) ==
    IF file = <<>> THEN [state |-> "failed", value |-> LenOf(0), rest |-> file]
    ELSE IF BitAnd(file[1], 192) = 0
    THEN [state |-> "read", value |-> LenOf(BitAnd(file[1], 63)), rest |-> Tail(file)]
    ELSE IF BitAnd(file[1], 192) = 64
    THEN IF Len(file) < 2 THEN [state |-> "failed", value |-> LenOf(0), rest |-> <<>>]
         ELSE [state |-> "read",
               value |-> LenOf(BitOr(file[1] * 256, file[2])),
               rest |-> SubSeq(file, 3, Len(file))]
    ELSE IF file[1] = 128
    THEN IF Len(file) < 5 THEN [state |-> "failed", value |-> LenOf(0), rest |-> <<>>]
         ELSE [state |-> "read", value |-> unpack_I(SubSeq(file, 2, 5)),
               rest |-> SubSeq(file, 6, Len(file))]
    ELSE [state |-> "failed", value |-> LenOf(0), rest |-> Tail(file)]

\* The length read from the head of the file and the bytes left after it; state
\* "failed" when EOFError or ValueError is raised.
read_length(file) ==
    IF file = <<>> THEN [state |-> "failed", value |-> LenOf(0), rest |-> file]
    ELSE IF BitAnd(file[1], 192) = 0
    THEN [state |-> "read", value |-> LenOf(BitAnd(file[1], 63)), rest |-> Tail(file)]
    ELSE IF BitAnd(file[1], 192) = 64
    THEN IF Len(file) < 2 THEN [state |-> "failed", value |-> LenOf(0), rest |-> <<>>]
         ELSE [state |-> "read",
               value |-> LenOf(BitOr(BitAnd(file[1], 63) * 256, file[2])),
               rest |-> SubSeq(file, 3, Len(file))]
    ELSE IF file[1] = 128
    THEN IF Len(file) < 5 THEN [state |-> "failed", value |-> LenOf(0), rest |-> <<>>]
         ELSE [state |-> "read", value |-> unpack_I(SubSeq(file, 2, 5)),
               rest |-> SubSeq(file, 6, Len(file))]
    ELSE [state |-> "failed", value |-> LenOf(0), rest |-> Tail(file)]

\* The lengths tried: both sides of every boundary of the three forms, up to
\* 2^32 - 1, and negative ones.
LengthLows == {0, 1, 62, 63, 64, 65, 255, 256, 257, 16382, 16383, 16384, 16385, 65535}
LengthHighs == {0, 1, 255, 256, 32767, 32768, 65535}
LengthInputs ==
    {[neg |-> FALSE, hi |-> h, lo |-> l] : h \in LengthHighs, l \in LengthLows}
    \cup {LenOf(0 - n) : n \in {1, 63, 64, 16384}}

InitLength ==
    /\ rdbIn \in LengthInputs /\ rdbFile = NoFile /\ rdbOut = NotRead
    /\ last_save_time = 0 /\ autosave = NoTask /\ mutations = 0

EncodeLength ==
    /\ rdbFile.state = "none"
    /\ rdbFile' = encode_length(rdbIn)
    /\ UNCHANGED <<rdbIn, rdbOut, last_save_time, autosave, mutations>>
    /\ UNCHANGED <<kvVars, replVars, connVars, codecVars, streamVars, bootVars>>

ReadLength ==
    /\ rdbFile.state = "written"
    /\ rdbOut.state = "none"
    /\ \E r \in {read_length(rdbFile.bytes)} :
          rdbOut' = [state |-> r.state, value |-> r.value]
    /\ UNCHANGED <<rdbIn, rdbFile, last_save_time, autosave, mutations>>
    /\ UNCHANGED <<kvVars, replVars, connVars, codecVars, streamVars, bootVars>>

NextLength == EncodeLength \/ ReadLength
LengthInit == InitStore /\ InitRepl /\ NoConn /\ NoCodec /\ NoStream /\ InitLength /\ NoBoot
SpecLength == LengthInit /\ [][NextLength]_vars

\* C17: encode_length rejects a negative length and writes every length in
\* [0, 2^32): 1 byte up to 63, 2 bytes with top bits 01 from 64 to 16383, and
\* 0x80 followed by the 4 little-endian bytes above; read_length of the bytes
\* written gives the length back.
C17_LengthRoundTrip ==
    /\ rdbFile.state # "none" =>
          IF rdbIn.neg THEN rdbFile.state = "failed"
          ELSE /\ rdbFile.state = "written"
               /\ IF rdbIn.hi = 0 /\ rdbIn.lo <= 63
                  THEN rdbFile.bytes = <<rdbIn.lo>>
                  ELSE IF rdbIn.hi = 0 /\ rdbIn.lo <= 16383
                  THEN /\ Len(rdbFile.bytes) = 2
                       /\ rdbFile.bytes[1] \div 64 = 1
                       /\ (rdbFile.bytes[1] % 64) * 256 + rdbFile.bytes[2] = rdbIn.lo
                  ELSE rdbFile.bytes =
                           <<128, rdbIn.lo % 256, rdbIn.lo \div 256,
                             rdbIn.hi % 256, rdbIn.hi \div 256>>
    /\ rdbOut.state # "none" => (rdbOut.state = "read" /\ rdbOut.value = rdbIn)
\* A length of the 32-bit form above 2^31 has been written and read back, one of
\* the 14-bit form too (in another run), and a negative one has been rejected.
C17_Witness == rdbOut.state = "read" /\ rdbIn.hi >= 32768
C17_WitnessMedium == rdbOut.state = "read" /\ rdbIn.hi = 0 /\ rdbIn.lo = 16383
C17_WitnessNegative == rdbFile.state = "failed" /\ rdbIn.neg

(***************************************************************************)
(* rdb_writer.write_redis_file and rdb_parser.parse_redis_file.  The data  *)
(* written is a dict, modelled as the sequence of its items; the values    *)
(* are a str, a list of str, a set of str, a dict of str, or (kind "zset") *)
(* a list of (member, score) tuples.  An expiry is a float of seconds,     *)
(* modelled as its count of milliseconds.                                  *)
(***************************************************************************)
\* ord() of the bytes of the characters used in keys and values.
CodeTable ==
    <<<<"a", 97>>, <<"b", 98>>, <<"f", 102>>, <<"v", 118>>,
      <<WideBytes[1], 195>>, <<WideBytes[2], 169>>>>
ByteOf(c) == (CHOOSE e \in Range(CodeTable) : e[1] = c)[2]
HasChar(b) == \E e \in Range(CodeTable) : e[2] = b
CharOf(b) == (CHOOSE e \in Range(CodeTable) : e[2] = b)[1]
\* str.encode('utf-8') and bytes.decode('utf-8') (ok FALSE: UnicodeDecodeError)
StrBytes(t) == [i \in 1..Len(Utf8Encode(t)) |-> ByteOf(Utf8Encode(t)[i])]
BytesStr(b) ==
    IF \A i \in 1..Len(b) : HasChar(b[i])
    THEN LET c == [i \in 1..Len(b) |-> CharOf(b[i])]
         IN IF Utf8Valid(c) THEN [ok |-> TRUE, text |-> Utf8Decode(c)]
            ELSE [ok |-> FALSE, text |-> <<>>]
    ELSE [ok |-> FALSE, text |-> <<>>]

\* The items of a set, in an order of the implementation's choosing.
RECURSIVE SetItems(_)
SetItems(S) ==
    IF S = {} THEN <<>> ELSE LET x == CHOOSE y \in S : TRUE IN <<x>> \o SetItems(S \ {x})

\* struct.pack('<d', score) for a score that is a whole number in 0..31: the sign,
\* the exponent and the top four bits of the mantissa lie in the last two bytes.
RECURSIVE Log2(_)
Log2(n) == IF n < 2 THEN 0 ELSE 1 + Log2(n \div 2)
pack_d(score) ==
    IF score = 0 THEN <<0, 0, 0, 0, 0, 0, 0, 0>>
    ELSE LET e == Log2(score)
             top == (1023 + e) * 16 + (((score - 2 ^ e) * 16) \div (2 ^ e))
         IN <<0, 0, 0, 0, 0, 0, top % 256, top \div 256>>
unpack_d(b) ==
    LET top == b[7] + 256 * b[8]
    IN IF top = 0 THEN 0
       ELSE ((16 + (top % 16)) * (2 ^ ((top \div 16) - 1023))) \div 16

REDIS_MAGIC == <<82, 69, 68, 73, 83>>
RDB_VERSION_CURRENT == <<48, 48, 49, 49>>
RDB_OPCODE_EOF == 255
RDB_OPCODE_SELECTDB == 254
RDB_OPCODE_EXPIRY_MS == 253
RDB_OPCODE_EXPIRY_SEC == 252
RDB_OPCODE_RESIZEDB == 251
RDB_TYPE_STRING == 0
RDB_TYPE_LIST == 1
RDB_TYPE_SET == 2
RDB_TYPE_HASH == 3
RDB_TYPE_ZSET == 4

encode_string(string_data) ==
    encode_length(LenOf(Len(StrBytes(string_data)))).bytes \o StrBytes(string_data)
\* encode_list_value and encode_set_value
encode_list_value(value) ==
    encode_length(LenOf(Len(value))).bytes
        \o Flatten([i \in 1..Len(value) |-> encode_string(value[i])])
encode_hash_value(value) ==
    LET fields == SetItems(DOMAIN value)
    IN encode_length(LenOf(Len(fields))).bytes
        \o Flatten([i \in 1..Len(fields) |->
               encode_string(fields[i]) \o encode_string(value[fields[i]])])
encode_zset_value(value) ==
    encode_length(LenOf(Len(value))).bytes
        \o Flatten([i \in 1..Len(value) |->
               encode_string(value[i][1]) \o pack_d(value[i][2])])
\* The type marker and the encoded value.  all() over no item holds, so the
\* empty list takes the marker of a sorted set.
encode_value(value) ==
    IF value.kind = "str" THEN <<RDB_TYPE_STRING>> \o encode_string(value.val)
    ELSE IF value.kind = "zset" \/ (value.kind = "list" /\ value.val = <<>>)
    THEN <<RDB_TYPE_ZSET>> \o encode_zset_value(value.val)
    ELSE IF value.kind = "list" THEN <<RDB_TYPE_LIST>> \o encode_list_value(value.val)
    ELSE IF value.kind = "set"
    THEN <<RDB_TYPE_SET>> \o encode_list_value(SetItems(value.val))
    ELSE <<RDB_TYPE_HASH>> \o encode_hash_value(value.val)
\* value_type + key + value
encode_key_value_pair(key, value) ==
    <<encode_value(value)[1]>> \o encode_string(key) \o Tail(encode_value(value))
encode_key_value_pair_with_expiry_sec(key, value, expiry_time_sec) ==
    <<RDB_OPCODE_EXPIRY_SEC>> \o pack_I(LenOf(expiry_time_sec))
        \o encode_key_value_pair(key, value)
\* The bytes of the file.  "expiry_time > 1000000000000" picks the millisecond
\* form; every time of the model is below that, so the seconds form is written,
\* with int(expiry_time).
write_redis_file(data, expires) ==
    REDIS_MAGIC \o RDB_VERSION_CURRENT
        \o <<RDB_OPCODE_SELECTDB, 0, RDB_OPCODE_RESIZEDB>>
        \o encode_length(LenOf(Len(data))).bytes
        \o encode_length(LenOf(Cardinality(DOMAIN expires))).bytes
        \o Flatten([i \in 1..Len(data) |->
               IF Has(expires, data[i][1])
               THEN encode_key_value_pair_with_expiry_sec(
                        data[i][1], data[i][2], expires[data[i][1]] \div 1000)
               ELSE encode_key_value_pair(data[i][1], data[i][2])])
        \o <<RDB_OPCODE_EOF>>

\* ---- the parser.  Each reader gives the value read and the bytes left; ok is
\* FALSE when it raises, with the bytes left after what it consumed.
PStr(t) == [t |-> "str", v |-> t]
PBytes(b) == [t |-> "bytes", v |-> b]
PTuple(m, score) == [t |-> "tuple", v |-> <<m, score>>]

\* F applied to the value of x, x being evaluated once.
Bind(x, F(_)) == CHOOSE y \in {F(v) : v \in {x}} : TRUE

read_string(file) ==
    Bind(read_length(file), LAMBDA l :
        IF l.state # "read" THEN [ok |-> FALSE, value |-> <<>>, rest |-> l.rest]
        ELSE IF l.value.hi > 0 \/ Len(l.rest) < l.value.lo
        THEN [ok |-> FALSE, value |-> <<>>, rest |-> <<>>]
        ELSE [ok |-> TRUE, value |-> SubSeq(l.rest, 1, l.value.lo),
              rest |-> SubSeq(l.rest, l.value.lo + 1, Len(l.rest))])

\* n times read_string, or read_string and an 8-byte score when scored.
RECURSIVE ReadItems(_, _, _, _)
ReadItems(file, n, scored, acc) ==
    IF n = 0 THEN [ok |-> TRUE, value |-> acc, rest |-> file]
    ELSE Bind(read_string(file), LAMBDA r :
            IF ~r.ok THEN [ok |-> FALSE, value |-> acc, rest |-> r.rest]
            ELSE IF ~scored
            THEN ReadItems(r.rest, n - 1, scored, Append(acc, PBytes(r.value)))
            ELSE IF Len(r.rest) < 8 THEN [ok |-> FALSE, value |-> acc, rest |-> <<>>]
            ELSE ReadItems(SubSeq(r.rest, 9, Len(r.rest)), n - 1, scored,
                           Append(acc, PTuple(PBytes(r.value),
                                              unpack_d(SubSeq(r.rest, 1, 8))))))

\* The items read as the value of the type.
ValueOf(value_type, items) ==
    IF value_type = RDB_TYPE_SET THEN [kind |-> "set", val |-> Range(items)]
    ELSE IF value_type = RDB_TYPE_HASH
    THEN [kind |-> "dict",
          val |-> [i \in 1..(Len(items) \div 2) |-> <<items[2 * i - 1], items[2 * i]>>]]
    ELSE [kind |-> "list", val |-> items]

\* The value as read, before decode_value; none for a type that is not known.
\* (The placeholder read for a stream, type 6, is left out: the writer never
\* writes that type.)
read_encoded_value(file, value_type) ==
    IF value_type = RDB_TYPE_STRING
    THEN Bind(read_string(file), LAMBDA r :
            [ok |-> r.ok, none |-> FALSE, rest |-> r.rest,
             value |-> [kind |-> "str", val |-> PBytes(r.value)]])
    ELSE IF value_type \in {RDB_TYPE_LIST, RDB_TYPE_SET, RDB_TYPE_HASH, RDB_TYPE_ZSET}
    THEN Bind(read_length(file), LAMBDA l :
            IF l.state # "read"
            THEN [ok |-> FALSE, none |-> FALSE, rest |-> l.rest, value |-> <<>>]
            ELSE IF l.value.hi > 0
            THEN [ok |-> FALSE, none |-> FALSE, rest |-> <<>>, value |-> <<>>]
            ELSE Bind(ReadItems(l.rest,
                                IF value_type = RDB_TYPE_HASH THEN 2 * l.value.lo
                                ELSE l.value.lo,
                                value_type = RDB_TYPE_ZSET, <<>>),
                      LAMBDA r : [ok |-> r.ok, none |-> FALSE, rest |-> r.rest,
                                  value |-> ValueOf(value_type, r.value)]))
    ELSE [ok |-> TRUE, none |-> TRUE, rest |-> file, value |-> <<>>]

\* decode_value of one item: bytes that decode become a str, a tuple is kept.
DecodeItem(x) ==
    IF x.t = "bytes" /\ BytesStr(x.v).ok THEN PStr(BytesStr(x.v).text) ELSE x
\* A dict built from items in order: the last value of a key stays.
DictOf(items) ==
    {<<DecodeItem(items[i][1]), DecodeItem(items[i][2])>> : i \in
        {j \in 1..Len(items) :
            \A n \in (j + 1)..Len(items) :
                DecodeItem(items[n][1]) # DecodeItem(items[j][1])}}
decode_value(value) ==
    IF value.kind = "str" THEN [kind |-> "str", val |-> DecodeItem(value.val)]
    ELSE IF value.kind = "list"
    THEN [kind |-> "list", val |-> [i \in 1..Len(value.val) |-> DecodeItem(value.val[i])]]
    ELSE IF value.kind = "set"
    THEN [kind |-> "set", val |-> {DecodeItem(x) : x \in value.val}]
    ELSE [kind |-> "dict", val |-> DictOf(value.val)]

\* key and value read, or none when reading raises.
handle_key_value_pair(file, value_type) ==
    Bind(read_string(file), LAMBDA k :
        IF ~k.ok THEN [none |-> TRUE, rest |-> k.rest, key |-> <<>>, value |-> <<>>]
        ELSE Bind(read_encoded_value(k.rest, value_type), LAMBDA v :
                [none |-> ~v.ok \/ v.none, rest |-> v.rest, key |-> k.value,
                 value |-> v.value]))

\* The same behind a 4-byte expiry in seconds; at is time.time() in
\* milliseconds.  A pair whose expiry has passed is read and dropped.
handle_key_value_pair_with_expiry_sec(file, at) ==
    IF Len(file) < 5
    THEN [none |-> TRUE, rest |-> <<>>, key |-> <<>>, value |-> <<>>, expiry |-> 0]
    ELSE Bind(unpack_I(SubSeq(file, 1, 4)), LAMBDA expiry_time :
         Bind(handle_key_value_pair(SubSeq(file, 6, Len(file)), file[5]), LAMBDA r :
            [none |-> r.none \/ (/\ expiry_time.hi = 0 /\ expiry_time.lo > 0
                                 /\ expiry_time.lo * 1000 < at),
             rest |-> r.rest, key |-> r.key, value |-> r.value,
             expiry |-> IntOfLen(expiry_time) * 1000]))

\* The same behind an 8-byte expiry in milliseconds (its low four bytes hold
\* every time of the model).
handle_key_value_pair_with_expiry_ms(file, at) ==
    IF Len(file) < 9
    THEN [none |-> TRUE, rest |-> <<>>, key |-> <<>>, value |-> <<>>, expiry |-> 0]
    ELSE Bind(IntOfLen(unpack_I(SubSeq(file, 1, 4))), LAMBDA expiry_time :
         Bind(handle_key_value_pair(SubSeq(file, 10, Len(file)), file[9]), LAMBDA r :
            [none |-> r.none \/ (expiry_time > 0 /\ expiry_time < at),
             rest |-> r.rest, key |-> r.key, value |-> r.value,
             expiry |-> expiry_time]))

\* The bytes left after the database number and, when the next byte is
\* RESIZEDB, after the two sizes; ok FALSE when reading raises.
handle_database_selector(file) ==
    IF file = <<>> THEN [ok |-> FALSE, rest |-> <<>>]
    ELSE IF Len(file) >= 2 /\ file[2] = RDB_OPCODE_RESIZEDB
    THEN Bind(read_length(SubSeq(file, 3, Len(file))), LAMBDA a :
         Bind(read_length(a.rest), LAMBDA b :
            [ok |-> a.state = "read" /\ b.state = "read", rest |-> b.rest]))
    ELSE [ok |-> TRUE, rest |-> Tail(file)]

\* hash_map[key] = decode_value(value) and the expiry, unless the key does not
\* decode.
Keep(out, r, expiry) ==
    IF r.none \/ ~BytesStr(r.key).ok THEN out
    ELSE [data |-> Put(out.data, BytesStr(r.key).text, decode_value(r.value)),
          expires |-> IF expiry > 0 THEN Put(out.expires, BytesStr(r.key).text, expiry)
                      ELSE out.expires]

\* The main parsing loop.
RECURSIVE RdbLoop(_, _, _)
RdbLoop(file, out, at) ==
    IF file = <<>> \/ Head(file) = RDB_OPCODE_EOF THEN out
    ELSE IF Head(file) = RDB_OPCODE_SELECTDB
    THEN Bind(handle_database_selector(Tail(file)), LAMBDA r :
            IF r.ok THEN RdbLoop(r.rest, out, at) ELSE out)
    ELSE IF Head(file) = RDB_OPCODE_EXPIRY_MS
    THEN Bind(handle_key_value_pair_with_expiry_ms(Tail(file), at), LAMBDA r :
            Bind(Keep(out, r, r.expiry), LAMBDA o : RdbLoop(r.rest, o, at)))
    ELSE IF Head(file) = RDB_OPCODE_EXPIRY_SEC
    THEN Bind(handle_key_value_pair_with_expiry_sec(Tail(file), at), LAMBDA r :
            Bind(Keep(out, r, r.expiry), LAMBDA o : RdbLoop(r.rest, o, at)))
    ELSE Bind(handle_key_value_pair(Tail(file), Head(file)), LAMBDA r :
            Bind(Keep(out, r, 0), LAMBDA o : RdbLoop(r.rest, o, at)))

\* (hash_map, expiry_times); both empty when the magic string is wrong.
parse_redis_file(file, at) ==
    IF Len(file) < 5 \/ SubSeq(file, 1, 5) # REDIS_MAGIC
    THEN [data |-> EmptyDict, expires |-> EmptyDict]
    ELSE RdbLoop(SubSeq(file, 10, Len(file)),
                   [data |-> EmptyDict, expires |-> EmptyDict], at)

\* ---- keyspaces written and read back
MaxSnapKeys == 2
SnapKeys == {<<"a">>, <<"b">>}
SnapValues ==
    { StrVal(<<"a">>), StrVal(<<>>), StrVal(<<"a", WideChar>>),
      ListVal(<<<<"a">>, <<"b">>, <<"a">>>>), ListVal(<<>>),
      SetVal({<<"a">>, <<"b">>}), DictVal((<<"f">> :> <<"v">>) @@ (<<"a">> :> <<>>)),
      ZSetVal(<<<<<<"b">>, 1>>, <<<<"a">>, 3>>>>) }
\* No expiry (0) or an expiry in milliseconds.
SnapExpiries == {0, 900, 1000, 1500}
SnapItems == {<<k, v, e>> : k \in SnapKeys, v \in SnapValues, e \in SnapExpiries}
SnapInputs ==
    {d \in SeqsUpTo(SnapItems, MaxSnapKeys) :
        d # <<>> /\ \A i \in 1..Len(d) : \A j \in 1..Len(d) : d[i][1] = d[j][1] => i = j}
SnapData(d) == [i \in 1..Len(d) |-> <<d[i][1], d[i][2]>>]
SnapExpires(d) ==
    [k \in {d[i][1] : i \in {j \in 1..Len(d) : d[j][3] # 0}} |->
        (CHOOSE x \in Range(d) : x[1] = k)[3]]

InitSnap ==
    /\ rdbIn \in SnapInputs /\ rdbFile = NoFile /\ rdbOut = NotRead
    /\ last_save_time = 0 /\ autosave = NoTask /\ mutations = 0

WriteFile ==
    /\ rdbFile.state = "none"
    /\ rdbFile' = [state |-> "written",
                   bytes |-> write_redis_file(SnapData(rdbIn), SnapExpires(rdbIn))]
    /\ UNCHANGED <<rdbIn, rdbOut, last_save_time, autosave, mutations>>
    /\ UNCHANGED <<kvVars, replVars, connVars, codecVars, streamVars, bootVars>>

ParseFile ==
    /\ rdbFile.state = "written"
    /\ rdbOut.state = "none"
    /\ rdbOut' = [state |-> "read", at |-> now,
                  value |-> parse_redis_file(rdbFile.bytes, now * TickMs)]
    /\ UNCHANGED <<rdbIn, rdbFile, last_save_time, autosave, mutations>>
    /\ UNCHANGED <<kvVars, replVars, connVars, codecVars, streamVars, bootVars>>

NextSnap == WriteFile \/ ParseFile \/ Tick
SnapInit == InitStore /\ InitRepl /\ NoConn /\ NoCodec /\ NoStream /\ InitSnap /\ NoBoot
SpecSnap == SnapInit /\ [][NextSnap]_vars

\* The value read back is of the kind of the value written and has its content.
SameValue(v, p) ==
    IF v.kind = "str" THEN p.kind = "str" /\ p.val = PStr(v.val)
    ELSE IF v.kind = "list"
    THEN p.kind = "list" /\ p.val = [i \in 1..Len(v.val) |-> PStr(v.val[i])]
    ELSE IF v.kind = "set" THEN p.kind = "set" /\ p.val = {PStr(x) : x \in v.val}
    ELSE IF v.kind = "dict"
    THEN p.kind = "dict" /\ p.val = {<<PStr(f), PStr(v.val[f])>> : f \in DOMAIN v.val}
    ELSE p.kind = "list"
         /\ p.val = [i \in 1..Len(v.val) |-> PTuple(PStr(v.val[i][1]), v.val[i][2])]

\* C16: a keyspace whose expirations all lie in the future, written to a
\* snapshot file and read back, comes back whole: every key with a value of the
\* same kind and content, and every expiration equal.
C16_SnapshotRoundTrip ==
    (/\ rdbOut.state = "read"
     /\ \A i \in 1..Len(rdbIn) : rdbIn[i][3] = 0 \/ rdbIn[i][3] > rdbOut.at * TickMs)
    => /\ DOMAIN rdbOut.value.data = {rdbIn[i][1] : i \in 1..Len(rdbIn)}
       /\ \A i \in 1..Len(rdbIn) : SameValue(rdbIn[i][2], rdbOut.value.data[rdbIn[i][1]])
       /\ rdbOut.value.expires = SnapExpires(rdbIn)

(***************************************************************************)
(* The persistence scheduler: AsyncServer.register_change,                 *)
(* _check_save_conditions, _trigger_auto_save and _auto_save.  The clock   *)
(* counts ticks and the save schedule is given in ticks.                   *)
(***************************************************************************)
\* self.save_schedule: (seconds, changes) pairs, as _parse_save_config reads them
\* from config["save"], scaled to the clock of the model.
SaveSchedule == <<<<2, 1>>, <<1, 2>>>>

\* Whether _check_save_conditions calls _trigger_auto_save.
_check_save_conditions(last, t, dirty) ==
    /\ SaveSchedule # <<>>
    /\ last # 0
    /\ \E i \in 1..Len(SaveSchedule) :
          t - last >= SaveSchedule[i][1] /\ dirty >= SaveSchedule[i][2]

\* _trigger_auto_save: nothing while a save is in progress, else a new task.
_trigger_auto_save(a, mem, exp) ==
    IF a.pc \notin {"none", "done"} THEN [a EXCEPT !.checked = TRUE]
    ELSE [NoTask EXCEPT !.pc = "created", !.checked = TRUE,
                        !.seen = [memory |-> mem, expiration |-> exp]]

\* The commands that change the list, set, dict or sorted set they find in
\* memory in place; the others bind the key to a new object.
InPlace ==
    {T.RPUSH, T.RPUSHX, T.LPOP, T.RPOP, T.LSET, T.LINSERT, T.HSET, T.SADD, T.SREM,
     T.SPOP, T.SMOVE, T.ZADD, T.ZREM}

\* dict.copy() is shallow: the worker's copy of memory holds the very lists,
\* sets, dicts and sorted sets of the store, so a change made in place shows in
\* the copy, while a key bound anew leaves the copy with the old object.
Shared(a, cmd, mem, mem2) ==
    LET inplace == Upper(cmd[1]) \in InPlace
        kept == {k \in a.alias :
                    /\ Has(mem2, k)
                    /\ (inplace \/ mem2[k] = mem[k])}
    IN [a EXCEPT !.alias = kept,
                 !.data = [k \in DOMAIN a.data |->
                              IF k \in kept THEN mem2[k]
                              ELSE IF k \in a.alias /\ inplace /\ a.data[k].kind = "list"
                              THEN ListVal(<<>>)
                              ELSE a.data[k]]]

\* A command handled while the server may be saving: handle_request, with
\* register_change() as SetCommand calls it.  (The record of the last command,
\* kept for the claims about replies, is not kept here.)
SaveHandle(cmd) ==
    /\ \E pick \in Picks(memory, cmd) :
       \E r \in {Execute(memory, expiration, now, cmd, pick)} :
       \E a \in {IF autosave.pc = "writing" THEN Shared(autosave, cmd, memory, r.memory)
                 ELSE autosave} :
          /\ WithinBounds(r.memory)
          /\ changes + r.changes <= MaxChanges
          /\ memory' = r.memory
          /\ expiration' = r.expiration
          /\ changes' = changes + r.changes
          /\ mutations + r.changes <= MaxChanges
          /\ (r.memory # memory \/ r.expiration # expiration) => mutations < MaxChanges
          /\ autosave' =
                IF r.changes > 0
                   /\ _check_save_conditions(last_save_time, now, changes + r.changes)
                THEN _trigger_auto_save(a, r.memory, r.expiration)
                ELSE [a EXCEPT !.checked = r.changes > 0]
          /\ mutations' = mutations +
                (IF r.changes > 0 THEN r.changes
                 ELSE IF r.memory # memory \/ r.expiration # expiration THEN 1 ELSE 0)
    /\ UNCHANGED <<now, request, before, reply, rdbIn, rdbFile, rdbOut, last_save_time>>
    /\ UNCHANGED <<replVars, connVars, codecVars, streamVars, bootVars>>

\* The task created by _trigger_auto_save starts: _auto_save hands its lambda to
\* the executor and waits.
AutoSaveStart ==
    /\ autosave.pc = "created"
    /\ autosave' = [autosave EXCEPT !.pc = "queued", !.checked = FALSE]
    /\ UNCHANGED <<rdbIn, rdbFile, rdbOut, last_save_time, mutations>>
    /\ UNCHANGED <<kvVars, replVars, connVars, codecVars, streamVars, bootVars>>

\* The worker thread runs the lambda: it evaluates self.memory.copy() and
\* self.expiration.copy() and calls write_rdb_file with them.
WorkerCopy ==
    /\ autosave.pc = "queued"
    /\ autosave' = [autosave EXCEPT !.pc = "writing", !.checked = FALSE,
                                    !.data = memory, !.expires = expiration,
                                    !.alias = {k \in DOMAIN memory : memory[k].kind # "str"}]
    /\ UNCHANGED <<rdbIn, rdbFile, rdbOut, last_save_time, mutations>>
    /\ UNCHANGED <<kvVars, replVars, connVars, codecVars, streamVars, bootVars>>

\* write_rdb_file writes what it was given and reports whether it succeeded.
WorkerWrite ==
    /\ autosave.pc = "writing"
    /\ \E ok \in BOOLEAN :
          autosave' = [autosave EXCEPT !.pc = "written", !.checked = FALSE,
                          !.success = ok,
                          !.written = [memory |-> autosave.data,
                                       expiration |-> autosave.expires]]
    /\ UNCHANGED <<rdbIn, rdbFile, rdbOut, last_save_time, mutations>>
    /\ UNCHANGED <<kvVars, replVars, connVars, codecVars, streamVars, bootVars>>

\* _auto_save resumes on the main task with the worker's result.
AutoSaveFinish ==
    /\ autosave.pc = "written"
    /\ autosave' = [autosave EXCEPT !.pc = "done", !.checked = FALSE]
    /\ last_save_time' = IF autosave.success THEN now ELSE last_save_time
    /\ changes' = IF autosave.success THEN 0 ELSE changes
    /\ mutations' = IF autosave.success THEN 0 ELSE mutations
    /\ UNCHANGED <<memory, expiration, now, request, before, reply>>
    /\ UNCHANGED <<rdbIn, rdbFile, rdbOut>>
    /\ UNCHANGED <<replVars, connVars, codecVars, streamVars, bootVars>>

\* time.time() advances while the server may be saving.
SaveTick ==
    /\ now < MaxTime
    /\ now' = now + 1
    /\ autosave' = [autosave EXCEPT !.checked = FALSE]
    /\ UNCHANGED <<memory, expiration, changes, request, before, reply>>
    /\ UNCHANGED <<rdbIn, rdbFile, rdbOut, last_save_time, mutations>>
    /\ UNCHANGED <<replVars, connVars, codecVars, streamVars, bootVars>>

SaveCommands ==
    {<<T.SET, <<"x">>, v>> : v \in Vals}
    \cup {<<T.RPUSH, <<"y">>, <<"b">>>>, <<T.LPUSH, <<"y">>, <<"a">>>>,
          <<T.LPOP, <<"y">>>>, <<T.SADD, <<"x">>, <<"a">>>>}

\* AsyncServer.create: last_save_time is 0, or the time of the start when a
\* snapshot file was named.
InitSave ==
    /\ rdbIn = <<>> /\ rdbFile = NoFile /\ rdbOut = NotRead
    /\ last_save_time \in {0, 1} /\ autosave = NoTask /\ mutations = 0

NextSave ==
    \/ \E cmd \in SaveCommands : SaveHandle(cmd)
    \/ AutoSaveStart
    \/ WorkerCopy
    \/ WorkerWrite
    \/ AutoSaveFinish
    \/ SaveTick
SaveInit == InitStore /\ InitRepl /\ NoConn /\ NoCodec /\ NoStream /\ InitSave /\ NoBoot
SpecSave == SaveInit /\ [][NextSave]_vars

\* C18: what a background save has written is the keyspace and the expirations
\* as they were when the save was triggered.
C18_SaveIsolation ==
    autosave.pc \in {"written", "done"} => autosave.written = autosave.seen

\* C19: when a command has just registered a change and some (seconds, changes)
\* pair of the schedule is met (a server that never saved or loaded has saved
\* infinitely long ago), a background save has been triggered or is in progress.
C19_AutoSaveTrigger ==
    (/\ autosave.checked
     /\ \E i \in 1..Len(SaveSchedule) :
           /\ last_save_time = 0 \/ now - last_save_time >= SaveSchedule[i][1]
           /\ changes >= SaveSchedule[i][2])
    => autosave.pc \in {"created", "queued", "writing", "written"}

\* C20: the dirty counter is the number of mutating operations since the last
\* successful save.
C20_DirtyCounter == changes = mutations

(***************************************************************************)
(* A replica and its master.  AsyncServer.create on the replica runs the   *)
(* handshake and then serves the connection to the master with an          *)
(* AsyncRequestHandler; the master is a server of this program that        *)
(* handles the replica's frames, SETs of its own clients and WAIT.  A      *)
(* chunk in flight is the bytes of one writer.write(); `frame` tells       *)
(* whether it is a command written by a propagation or GETACK loop.        *)
(***************************************************************************)
MaxGetAck == 1
MaxDown == 4
ReplicaPorts == {6380, 16379}

Chunk(data, frame) == [data |-> data, frame |-> frame]
StartsWith(s, p) == Len(s) >= Len(p) /\ SubSeq(s, 1, Len(p)) = p

PONG == <<"+", "P", "O", "N", "G", CR, LF>>
\* The frames of the handshake, as the literals of AsyncServer.py spell them.
PingFrame == <<"*", "1", CR, LF, "$", "4", CR, LF>> \o T.PING \o CRLF
ReplconfHead == <<"*", "3", CR, LF, "$", "8", CR, LF>> \o T.REPLCONF \o CRLF
\* "...$14\r\nlistening-port\r\n$4\r\n" + str(port) + "\r\n"
ReplconfFrame(port) ==
    ReplconfHead \o <<"$", "1", "4", CR, LF>> \o T.LISTENING_PORT \o CRLF
        \o <<"$", "4", CR, LF>> \o Dec(port) \o CRLF
CapaFrame ==
    ReplconfHead \o <<"$", "4", CR, LF>> \o T.CAPA \o CRLF
        \o <<"$", "6", CR, LF>> \o T.PSYNC2 \o CRLF
PsyncFrame ==
    <<"*", "3", CR, LF, "$", "5", CR, LF>> \o T.PSYNC \o CRLF
        \o <<"$", "1", CR, LF, "?", CR, LF, "$", "2", CR, LF, "-", "1", CR, LF>>

\* commands.py PSyncCommand: the reply line and bytes.fromhex(rdb_hex), a fixed
\* snapshot of 88 bytes that holds no key.
FULLRESYNC ==
    <<"+FULLRESYNC 8371b4fb1155b71f4a04d3e1bc3e18c4a990aeeb 0", CR, LF>>
binary_data ==
    <<"R", "E", "D", "I", "S", "0", "0", "1", "1", "xFA", "x09", "r", "e",
      "d", "i", "s", "-", "v", "e", "r", "x05", "7", ".", "2", ".", "0",
      "xFA", LF, "r", "e", "d", "i", "s", "-", "b", "i", "t", "s", "xC0",
      "@", "xFA", "x05", "c", "t", "i", "m", "e", "xC2", "m", "x08", "xBC",
      "e", "xFA", "x08", "u", "s", "e", "d", "-", "m", "e", "m", "xC2",
      "xB0", "xC4", "x10", "x00", "xFA", "x08", "a", "o", "f", "-", "b", "a",
      "s", "e", "xC0", "x00", "xFF", "xF0", "n", ";", "xFE", "xC0", "xFF",
      "Z", "xA2">>
PSyncCommand ==
    << Chunk(FULLRESYNC, FALSE),
       Chunk(<<"$">> \o Dec(Len(binary_data)) \o CRLF, FALSE),
       Chunk(binary_data, FALSE) >>

\* commands.py ReplConfCommand.execute: the response and what it does to the
\* server ("register" appends handler.writer to server.writers, "ack"
\* increments server.numacks).
AckPrefix == ReplconfHead \o <<"$", "3", CR, LF>> \o T.ACK
AckResponse(offset) ==
    AckPrefix \o CRLF \o <<"$">> \o Dec(Len(Dec(offset))) \o CRLF \o Dec(offset) \o CRLF
ReplConfCommand(offset, command) ==
    IF Len(command) > 2 /\ command[2] = T.LISTENING_PORT
    THEN [reply |-> OK_RESPONSE, effect |-> "register"]
    ELSE IF Len(command) > 2 /\ command[2] = T.GETACK
    THEN [reply |-> AckResponse(offset), effect |-> "none"]
    ELSE IF Len(command) > 2 /\ command[2] = T.ACK
    THEN [reply |-> NoReply, effect |-> "ack"]
    ELSE [reply |-> OK_RESPONSE, effect |-> "none"]

\* reader.read(1024) returns what has arrived: the first k chunks in flight.
Arrived(chunks, k) == Flatten([i \in 1..k |-> chunks[i].data])
\* The byte lengths of the command frames among the first k chunks.
RECURSIVE FrameLens(_, _)
FrameLens(chunks, k) ==
    IF k = 0 THEN <<>>
    ELSE FrameLens(chunks, k - 1)
            \o (IF chunks[k].frame THEN <<Len(chunks[k].data)>> ELSE <<>>)

\* ---- the replica's startup: AsyncServer.create from open_connection on
InitBoot ==
    /\ boot \in {[NotStarted EXCEPT !.pc = "start", !.port = p] : p \in ReplicaPorts}
    /\ up = <<>>
    /\ down = <<>>
    /\ link = NoLink

\* send_ping up to its reader.read()
SendPing ==
    /\ boot.pc = "start"
    /\ boot' = [boot EXCEPT !.pc = "ping", !.sent = Append(@, PingFrame)]
    /\ up' = Append(up, PingFrame)
    /\ UNCHANGED <<down, link>>
    /\ UNCHANGED <<kvVars, replVars, connVars, codecVars, streamVars, saveVars>>

\* A read of the handshake returns `response`: the comparison with the expected
\* reply raises ValueError (bytes that do not decode raise as well), otherwise
\* the next frame is written and the coroutine goes on to `next`.
Handshake(k, expected, frame, next) ==
    LET response == Arrived(down, k)
    IN /\ down' = SubSeq(down, k + 1, Len(down))
       /\ IF Utf8Valid(response) /\ Utf8Decode(response) = expected
          THEN /\ boot' = [boot EXCEPT !.pc = next, !.got = Append(@, response),
                                       !.sent = Append(@, frame)]
               /\ up' = Append(up, frame)
          ELSE /\ boot' = [boot EXCEPT !.pc = "aborted", !.got = Append(@, response)]
               /\ up' = up
       /\ UNCHANGED link
       /\ UNCHANGED <<kvVars, replVars, connVars, codecVars, streamVars, saveVars>>

\* create: "if response != '+PONG\r\n': raise", then send_replconf_command
\* up to its read.
ReadPong ==
    /\ boot.pc = "ping"
    /\ \E k \in 1..Len(down) : Handshake(k, PONG, ReplconfFrame(boot.port), "replconf")

\* send_replconf_command's read, then send_additional_replconf_command up to
\* its read.
ReadReplconfOk ==
    /\ boot.pc = "replconf"
    /\ \E k \in 1..Len(down) : Handshake(k, OK_RESPONSE, CapaFrame, "capa")

\* send_additional_replconf_command's read, then send_psync_command, which
\* reads nothing, and accept_connections(reader, writer): the command loop.
ReadCapaOk ==
    /\ boot.pc = "capa"
    /\ \E k \in 1..Len(down) : Handshake(k, OK_RESPONSE, PsyncFrame, "loop")

\* ---- the replica's handler of the connection to its master: handle_request
\* with "replica_server is not None and peername port == replica_port".  Only a
\* response that starts with the REPLCONF ACK prefix is written back.
RECURSIVE RunLink(_, _, _, _, _, _)
RunLink(st, commands, lengths, lens, index, t) ==
    IF index > Len(commands) THEN st
    ELSE LET cmd == commands[index]
             isReplconf == cmd # <<>> /\ Upper(cmd[1]) = T.REPLCONF
             isGetAck == isReplconf /\ Len(cmd) > 2 /\ cmd[2] = T.GETACK
             Executed(r) == [st EXCEPT !.memory = r.memory, !.expiration = r.expiration]
             Replied(r, st1) ==
                 IF r.reply = EXCEPTION THEN [st1 EXCEPT !.alive = FALSE]
                 ELSE RunLink([st1 EXCEPT
                                  !.out = IF StartsWith(r.reply, AckPrefix)
                                          THEN Append(@, Utf8Encode(r.reply)) ELSE @,
                                  !.offset = @ + lengths[index],
                                  !.expect = IF isGetAck
                                             THEN Append(@, AckResponse(st.bytes)) ELSE @,
                                  !.bytes = @ + (IF index <= Len(lens) THEN lens[index] ELSE 0)],
                              commands, lengths, lens, index + 1, t)
             Run(r) == Replied(r, Executed(r))
         IN Run(IF isReplconf
                THEN Result(st.memory, st.expiration, ReplConfCommand(st.offset, cmd).reply)
                ELSE Execute(st.memory, st.expiration, t, cmd,
                             CHOOSE v \in Picks(st.memory,
                                                IF cmd = <<>> THEN <<T.GET>> ELSE cmd) : TRUE))

\* One iteration of process_request on the connection to the master.
LinkRead ==
    /\ boot.pc = "loop"
    /\ link.alive
    /\ \E k \in 1..Len(down) :
       \E p \in {parse_redis_protocol(Arrived(down, k))} :
       \E l \in {IF p.commands = <<>> THEN link
                 ELSE RunLink(link, p.commands, p.lengths, FrameLens(down, k), 1, now)} :
          /\ link' = l
          /\ up' = up \o SubSeq(l.out, Len(link.out) + 1, Len(l.out))
          /\ down' = SubSeq(down, k + 1, Len(down))
    /\ UNCHANGED boot
    /\ UNCHANGED <<kvVars, replVars, connVars, codecVars, streamVars, saveVars>>

\* ---- the master: its handler of the replica's connection takes one frame.
\* PingCommand, ReplConfCommand and PSyncCommand; a response that is not empty
\* is written back.
PrimaryRead ==
    /\ up # <<>>
    /\ LET p == parse_redis_protocol(Head(up))
           cmd == p.commands[1]
           name == Upper(cmd[1])
           c == ReplConfCommand(0, cmd)
       IN /\ Len(p.commands) = 1
          /\ name \in {T.PING, T.REPLCONF, T.PSYNC}
          /\ down' = down \o
                (CASE name = T.PING -> <<Chunk(PONG, FALSE)>>
                   [] name = T.PSYNC -> PSyncCommand
                   [] name = T.REPLCONF ->
                        IF c.reply = NoReply THEN <<>> ELSE <<Chunk(c.reply, FALSE)>>)
          /\ writers' = IF name = T.REPLCONF /\ c.effect = "register"
                        THEN Append(writers, "r1") ELSE writers
          /\ numacks' = IF name = T.PSYNC \/ (name = T.REPLCONF /\ c.effect = "ack")
                        THEN numacks + 1 ELSE numacks
    /\ up' = Tail(up)
    /\ UNCHANGED <<boot, link>>
    /\ UNCHANGED <<wire, task, paused, applied>>
    /\ UNCHANGED <<kvVars, connVars, codecVars, streamVars, saveVars>>

\* SetCommand.execute for a client of the master; no transport is paused, so
\* no drain() suspends the loop over server.writers.
PrimarySet(cmd) ==
    /\ Len(applied) < MaxApplied
    /\ Len(down) + Len(writers) <= MaxDown
    /\ \E r \in {SetCommand(memory, expiration, now, cmd)} :
          /\ changes + r.changes <= MaxChanges
          /\ memory' = r.memory
          /\ expiration' = r.expiration
          /\ changes' = changes + r.changes
    /\ numacks' = 0
    /\ applied' = Append(applied, [cmd |-> cmd, targets |-> Range(writers)])
    /\ down' = down \o [i \in 1..Len(writers) |-> Chunk(encode_redis_protocol(cmd), TRUE)]
    /\ UNCHANGED <<now, request, before, reply, writers, wire, task, paused>>
    /\ UNCHANGED <<boot, up, link>>
    /\ UNCHANGED <<connVars, codecVars, streamVars, saveVars>>

\* WaitCommand.execute for "WAIT 0 0": the GETACK broadcast; the loop's test
\* fails at once and the counter is returned.
GetAcksSent ==
    Len(link.expect) + Cardinality({i \in DOMAIN down : down[i].data = GetAckFrame})
PrimaryWait ==
    /\ writers # <<>>
    /\ GetAcksSent < MaxGetAck
    /\ Len(down) + Len(writers) <= MaxDown
    /\ down' = down \o [i \in 1..Len(writers) |-> Chunk(GetAckFrame, TRUE)]
    /\ UNCHANGED <<boot, up, link>>
    /\ UNCHANGED <<kvVars, replVars, connVars, codecVars, streamVars, saveVars>>

\* The peer is not a server of this program and refuses a frame of the
\* handshake.
NOAUTH == <<"-NOAUTH Authentication required.", CR, LF>>
PeerRefuses ==
    /\ boot.pc \in {"ping", "replconf", "capa"}
    /\ up # <<>>
    /\ up' = Tail(up)
    /\ down' = Append(down, Chunk(NOAUTH, FALSE))
    /\ UNCHANGED <<boot, link>>
    /\ UNCHANGED <<kvVars, replVars, connVars, codecVars, streamVars, saveVars>>

ReplicaSets ==
    {<<T.SET, <<"x">>, <<"a">>>>, <<T.SET, <<"x">>, <<WideChar>>>>}

NextReplica ==
    \/ SendPing
    \/ ReadPong
    \/ ReadReplconfOk
    \/ ReadCapaOk
    \/ LinkRead
    \/ PrimaryRead
    \/ \E cmd \in ReplicaSets : PrimarySet(cmd)
    \/ PrimaryWait
    \/ PeerRefuses
ReplicaInit == InitStore /\ InitRepl /\ NoConn /\ NoCodec /\ NoStream /\ NoSave /\ InitBoot
SpecReplica == ReplicaInit /\ [][NextReplica]_vars

\* C21: the replica sends PING, REPLCONF listening-port <port>, REPLCONF capa
\* psync2 and PSYNC ? -1 in this order, each after the expected reply (+PONG,
\* +OK, +OK) to the one before; it enters the command loop only after PSYNC,
\* and a reply other than the expected one aborts the startup.
HandshakeFrames(port) ==
    << encode_redis_protocol(<<T.PING>>),
       encode_redis_protocol(<<T.REPLCONF, T.LISTENING_PORT, Dec(port)>>),
       encode_redis_protocol(<<T.REPLCONF, T.CAPA, T.PSYNC2>>),
       encode_redis_protocol(<<T.PSYNC, <<"?">>, <<"-", "1">>>>) >>
ExpectedReplies == <<PONG, OK_RESPONSE, OK_RESPONSE>>
C21_HandshakeOrder ==
    boot.pc # "none"
        => /\ Len(boot.sent) <= 4
           /\ \A i \in 1..Len(boot.sent) : boot.sent[i] = HandshakeFrames(boot.port)[i]
           /\ \A i \in 2..Len(boot.sent) :
                 Len(boot.got) >= i - 1 /\ boot.got[i - 1] = ExpectedReplies[i - 1]
           /\ boot.pc = "loop" => Len(boot.sent) = 4
           /\ \A i \in 1..Len(boot.got) :
                 boot.got[i] # ExpectedReplies[i]
                     => boot.pc = "aborted" /\ Len(boot.sent) = i

\* C22: on the connection to its master the replica writes nothing but the
\* replies to REPLCONF GETACK; its offset is the number of bytes of the
\* commands it has consumed, and each reply is REPLCONF ACK <offset> with the
\* bytes of the commands consumed before that GETACK frame.
C22_OffsetAndAck ==
    /\ link.offset = link.bytes
    /\ link.out = link.expect

\* C28: once the replica has finished the handshake and has consumed
\* everything its master has sent it (the +FULLRESYNC line, the snapshot
\* payload and the propagated commands), its keyspace equals the master's.
C28_FullResync ==
    (boot.pc = "loop" /\ link.alive /\ up = <<>> /\ down = <<>>)
        => (link.memory = memory /\ link.expiration = expiration)

\* C27: a command whose name, in upper case, is not a key of command_map is
\* answered "-ERR unknown command" and the connection stays in service for
\* the commands after it.
UnknownName(cmd) == cmd # <<>> /\ Upper(cmd[1]) \notin command_map
C27_UnknownCommand ==
    \A i \in 1..Len(run) : \A j \in 1..Len(run[i].executed) :
        UnknownName(run[i].executed[j])
            => /\ run[i].alive
               /\ \E k \in 1..Len(run[i].out) : run[i].out[k] = Utf8Encode(UNKNOWN_COMMAND)

(***************************************************************************)
(* The sorted-set commands: ZADD with its options and ZREM on the key x,    *)
(* each served whole by Handle.                                            *)
(***************************************************************************)
Members == {<<"a">>, <<"b">>, <<"c">>}
ScoreTexts == {<<"-", "1">>, <<"0">>, <<"1">>}
ZOptions ==
    { <<>>, <<T.NX>>, <<T.XX>>, <<T.GT>>, <<T.LT>>, <<T.INCR>>, <<T.CH>>,
      <<T.GT, T.INCR>>, <<T.LT, T.INCR>>, <<T.INCR, T.CH>>,
      <<T.NX, T.XX>>, <<T.GT, T.LT>>, <<T.GT, T.NX>>, <<T.LT, T.NX>> }
ZKey == <<"x">>
ZSetCommands ==
    {<<T.ZADD, ZKey>> \o o \o <<s, <<"a">>>> : o \in ZOptions, s \in ScoreTexts}
    \cup { <<T.ZADD, ZKey, NanText, <<"a">>>>, <<T.ZADD, ZKey, One, <<"b">>>>,
           <<T.ZADD, ZKey, Zero, <<"c">>>>,
           <<T.ZADD, ZKey, T.CH, One, <<"a">>, Zero, <<"b">>>> }
    \cup {<<T.ZREM, ZKey, m>> : m \in Members}
ZSetCommand == \E cmd \in ZSetCommands : Handle(cmd)
NextZSet == ZSetCommand
SpecZSet == Init /\ [][NextZSet]_vars

\* What a ZADD asks for, read off the command: its options, the index of its
\* first score, and whether it is a ZADD of whole (score, member) pairs with
\* numeric scores and no exclusive pair of options.
HasOpt(cmd, o) == \E i \in 3..Len(cmd) : cmd[i] = o
FirstScore(cmd) ==
    CHOOSE i \in 3..Len(cmd) : IsFloat(cmd[i]) /\ \A j \in 3..(i - 1) : ~IsFloat(cmd[j])
ExclusiveOptions(cmd) ==
    \/ HasOpt(cmd, T.NX) /\ HasOpt(cmd, T.XX)
    \/ HasOpt(cmd, T.GT) /\ HasOpt(cmd, T.LT)
    \/ HasOpt(cmd, T.GT) /\ HasOpt(cmd, T.NX)
    \/ HasOpt(cmd, T.LT) /\ HasOpt(cmd, T.NX)
IsZAdd(cmd) == Len(cmd) >= 2 /\ cmd[1] = T.ZADD
WholePairs(cmd) ==
    /\ IsZAdd(cmd)
    /\ \E i \in 3..Len(cmd) : IsFloat(cmd[i])
    /\ (Len(cmd) - FirstScore(cmd)) % 2 = 1
    /\ \A i \in FirstScore(cmd)..Len(cmd) : (i - FirstScore(cmd)) % 2 = 0 => IsInt(cmd[i])

\* The member -> score map and the counts a ZADD leaves by the rules of the
\* options: an absent member is added unless XX is given; a present one gets
\* the new score (the sum with INCR) unless NX is given, or GT is given and
\* the new score is not greater, or LT is given and it is not less.
RECURSIVE ZAddByRule(_, _, _, _, _)
ZAddByRule(scores, cmd, i, added, changed) ==
    IF i > Len(cmd) THEN [scores |-> scores, added |-> added, changed |-> changed]
    ELSE LET score == IntOf(cmd[i])
             member == cmd[i + 1]
             in == Has(scores, member)
             old == IF in THEN scores[member] ELSE 0
             new == IF in /\ HasOpt(cmd, T.INCR) THEN old + score ELSE score
             apply == IF ~in THEN ~HasOpt(cmd, T.XX)
                      ELSE /\ ~HasOpt(cmd, T.NX)
                           /\ HasOpt(cmd, T.GT) => new > old
                           /\ HasOpt(cmd, T.LT) => new < old
         IN ZAddByRule(IF apply THEN Put(scores, member, new) ELSE scores, cmd, i + 2,
                       IF apply /\ ~in THEN added + 1 ELSE added,
                       IF apply /\ in /\ new # old THEN changed + 1 ELSE changed)

NoNan(z) == \A m \in DOMAIN z.scores : z.scores[m] # nan
\* `data` holds exactly the tuples (scores[m], m), each once, and no tuple of
\* its list is below one that precedes it.
ZConsistent(z) ==
    /\ z.data.set = {<<z.scores[m], m>> : m \in DOMAIN z.scores}
    /\ Range(z.data.list) = z.data.set
    /\ Len(z.data.list) = Cardinality(z.data.set)
    /\ \A i \in 1..Len(z.data.list) : \A j \in (i + 1)..Len(z.data.list) :
          ~TupleLt(z.data.list[j], z.data.list[i])
ZBefore == get_sorted_set_from_memory(before.memory, ZKey)
ZAfter == get_sorted_set_from_memory(memory, ZKey)

\* C23: a ZADD of whole pairs with compatible options leaves, for every pair,
\* the score the rules of NX, XX, GT, LT and INCR give, and replies the number
\* of members added, plus with CH the number of members whose score changed.
C23_ZAddOptions ==
    (WholePairs(request) /\ ~ExclusiveOptions(request) /\ NoNan(ZBefore) /\ ZConsistent(ZBefore))
        => LET r == ZAddByRule(ZBefore.scores, request, FirstScore(request), 0, 0)
           IN /\ ZAfter.scores = r.scores
              /\ reply = IntReply(r.added + (IF HasOpt(request, T.CH) THEN r.changed ELSE 0))

\* C26: after any ZADDs and ZREMs on a key the sorted collection and the
\* member -> score map agree, every member appears once and iteration is
\* ascending by (score, member); ZCARD is the number of members and
\* ZRANK(m) + ZREVRANK(m) = ZCARD - 1 for every member m.
C26_SortedSetInvariant ==
    /\ ZConsistent(ZAfter)
    /\ zcard(ZAfter) = Cardinality(DOMAIN ZAfter.scores)
    /\ \A m \in DOMAIN ZAfter.scores :
          /\ zrank(ZAfter, m).v # -1
          /\ zrank(ZAfter, m).v + zrevrank(ZAfter, m).v = zcard(ZAfter) - 1

\* The replies that report an error of the arguments.
ArgumentErrors ==
    {NON_INT_ERROR, SYNTAX_ERROR, FLOAT_ERROR_MESSAGE, SET_ARITY_ERROR, MSET_ARITY_ERROR}

\* C24: a ZADD that carries both options of one of the pairs {NX,XX}, {GT,LT},
\* {GT,NX}, {LT,NX} is answered with an error reply, its handler does not
\* raise, and the sorted set is as it was.
C24_ExclusiveOptions ==
    (IsZAdd(request) /\ ExclusiveOptions(request))
        => /\ reply # EXCEPTION
           /\ reply \in ArgumentErrors
           /\ memory = before.memory

(***************************************************************************)
(* The commands that reject their arguments, next to the ones that set up  *)
(* the keys they are rejected on.                                          *)
(***************************************************************************)
ArgCommands ==
    UNION { { <<T.ZADD, k, Zero, <<"a">>>>,
              <<T.ZADD, k, One, <<"a">>, <<"z">>, <<"b">>>>,
              <<T.ZADD, k, One, <<"a">>, One>>,
              <<T.ZADD, k, <<"z">>, <<"a">>>>,
              <<T.HSET, k, <<"f">>, <<"a">>>>,
              <<T.HSET, k, <<"f">>, <<"b">>, <<"g">>>>,
              <<T.HSET, k, <<"f">>>>,
              <<T.SET, k, <<"a">>>>,
              <<T.SET, k, One>>,
              <<T.SET, k, <<"b">>, T.PX, <<"z">>>>,
              <<T.INCRBY, k, One>>,
              <<T.INCRBY, k, <<"z">>>> } : k \in Keys }
ArgCommand == \E cmd \in ArgCommands : Handle(cmd)
NextArgs == ArgCommand
SpecArgs == Init /\ [][NextArgs]_vars

\* The command is rejected for its arguments: a ZADD without whole pairs of a
\* float and a member, an HSET without whole pairs of a field and a value, a
\* SET with a PX that is no integer, an INCRBY with an increment that is none.
ArgumentError(cmd) ==
    /\ Len(cmd) >= 2
    /\ \/ IsZAdd(cmd) /\ ~ExclusiveOptions(cmd) /\ ~WholePairs(cmd)
       \/ cmd[1] = T.HSET /\ (Len(cmd) < 4 \/ Len(cmd) % 2 = 1)
       \/ cmd[1] = T.SET /\ \E i \in 4..(Len(cmd) - 1) : cmd[i] = T.PX /\ ~IsInt(cmd[i + 1])
       \/ cmd[1] = T.INCRBY /\ Len(cmd) = 3 /\ ~IsInt(cmd[3])

\* C25: a command rejected for its arguments replies an -ERR error and leaves
\* the keyspace and the expiration table as they were: no pair of it is
\* applied.  A key of another kind is answered WRONGTYPE before the arguments
\* are looked at.
C25_ArgumentErrors ==
    (ArgumentError(request) /\ ~KindMismatch(request, before.memory))
        => /\ reply \in ArgumentErrors
           /\ memory = before.memory
           /\ expiration = before.expiration

(***************************************************************************)
(* A replica that stops reading for good.  The transport of r1, once over  *)
(* its high-water mark, stays there; r2's comes back.  Clients send SET,   *)
(* MSET and WAIT.                                                          *)
(***************************************************************************)
\* MSetCommand.execute from the pair at the head of `pairs` on: one awaited
\* SetCommand.execute per pair, each with its own loop over server.writers,
\* until a drain() suspends the coroutine or no pair is left.
RECURSIVE MSetRun(_, _, _, _, _, _)
MSetRun(mem, exp, n, w, app, pairs) ==
    IF pairs = <<>>
    THEN [memory |-> mem, expiration |-> exp, changes |-> n, wire |-> w, applied |-> app,
          at |-> 0, entry |-> NoEntry, rest |-> <<>>]
    ELSE LET cmd == <<T.SET, pairs[1], pairs[2]>>
             r == SetCommand(mem, exp, now, cmd)
             entry == [data |-> encode_redis_protocol(cmd), of |-> Len(app) + 1]
             l == WriteLoop(w, writers, paused, 1, entry)
             app1 == Append(app, [cmd |-> cmd, targets |-> Range(writers)])
             rest == SubSeq(pairs, 3, Len(pairs))
         IN IF l.at # 0
            THEN [memory |-> r.memory, expiration |-> r.expiration, changes |-> n + 1,
                  wire |-> l.wire, applied |-> app1, at |-> l.at, entry |-> entry,
                  rest |-> rest]
            ELSE MSetRun(r.memory, r.expiration, n + 1, l.wire, app1, rest)

\* What a run of MSET pairs leaves: the store, the streams and the task.
MSetDone(c, m) ==
    /\ memory' = m.memory
    /\ expiration' = m.expiration
    /\ changes' = m.changes
    /\ numacks' = IF m.changes > changes THEN 0 ELSE numacks
    /\ wire' = m.wire
    /\ applied' = m.applied
    /\ task' = [task EXCEPT ![c] =
                   IF m.at = 0 THEN Idle(OK_RESPONSE)
                   ELSE [Idle(NoReply) EXCEPT !.pc = "mset", !.at = m.at,
                                              !.entry = m.entry, !.rest = m.rest]]

MSetBegin(c, cmd) ==
    /\ task[c].pc = "idle"
    /\ Len(cmd) % 2 = 1
    /\ Len(applied) < MaxApplied
    /\ changes + (Len(cmd) - 1) \div 2 <= MaxChanges
    /\ RoomOnWire
    /\ MSetDone(c, MSetRun(memory, expiration, changes, wire, applied, Tail(cmd)))
    /\ UNCHANGED <<now, request, before, reply, writers, paused>>
    /\ UNCHANGED <<connVars, codecVars, streamVars, saveVars, bootVars>>

\* The drain() an MSET was suspended in returns: the loop of the pair goes on
\* with the next writer, and after it the pairs that are left.
MSetResume(c) ==
    /\ task[c].pc = "mset"
    /\ writers[task[c].at] \notin paused
    /\ \E l \in {WriteLoop(wire, writers, paused, task[c].at + 1, task[c].entry)} :
          IF l.at # 0
          THEN /\ wire' = l.wire
               /\ task' = [task EXCEPT ![c].at = l.at]
               /\ UNCHANGED <<memory, expiration, changes, numacks, applied>>
          ELSE MSetDone(c, MSetRun(memory, expiration, changes, l.wire, applied,
                                   task[c].rest))
    /\ UNCHANGED <<now, request, before, reply, writers, paused>>
    /\ UNCHANGED <<connVars, codecVars, streamVars, saveVars, bootVars>>

MSetOf == <<T.MSET, <<"x">>, <<"a">>, <<"y">>, <<"a">>>>
\* The replica whose transport, once paused, never resumes.
StuckReplica == "r1"
NextStuck ==
    \/ \E r \in Replicas : ReplConfListen(r) \/ Stall(r)
    \/ \E r \in Replicas \ {StuckReplica} : Unstall(r)
    \/ SetBegin("c2", SetOf("c2"))
    \/ MSetBegin("c1", MSetOf)
    \/ \E cmd \in {<<T.WAIT, One, Zero>>} : WaitBegin("c2", cmd)
    \/ \E c \in Clients : SetResume(c) \/ MSetResume(c) \/ WaitResume(c)
\* The event loop runs a coroutine whose drain() has returned, and a replica
\* that reads empties its transport.
FairStuck ==
    /\ \A r \in Replicas \ {StuckReplica} : WF_vars(Unstall(r))
    /\ \A c \in Clients :
          SF_vars(SetResume(c)) /\ SF_vars(MSetResume(c)) /\ SF_vars(WaitResume(c))
SpecStuck == Init /\ [][NextStuck]_vars /\ FairStuck

\* C29: between the writes of two pairs of an MSET no command of another
\* connection executes: while the MSET has pairs left and its task does not
\* move, the keyspace is not written and no command is applied.
C29_MSetAtomic ==
    [][\A c \in Clients :
          (task[c].pc = "mset" /\ task[c].rest # <<>> /\ task'[c] = task[c])
              => (memory' = memory /\ applied' = applied)]_vars

\* C30: a SET or WAIT that is propagating to the replicas is answered, also
\* when the transport of a registered replica never empties.
C30_StuckReplica ==
    \A c \in Clients :
        (task[c].pc \in {"set", "wait_send"}) ~> (task[c].pc = "idle")

(***************************************************************************)
(* The acknowledgement counter and the replica set, without the assumption *)
(* that a replica registers once and acknowledges once: ReplConfCommand    *)
(* tests neither who sends the command nor how often.                      *)
(***************************************************************************)
MaxNumAcks == 2
WaitTwo == <<T.WAIT, <<"2">>, Zero>>

\* REPLCONF listening-port <port> from a connection that is registered already:
\* "handler.server.writers.append(writer)" runs again.
ReplConfListenAgain(r) ==
    /\ Len(writers) < MaxWriters
    /\ r \in Range(writers)
    /\ writers' = Append(writers, r)
    /\ UNCHANGED <<numacks, wire, task, paused, applied>>
    /\ UNCHANGED <<kvVars, connVars, codecVars, streamVars, saveVars, bootVars>>

\* REPLCONF ACK <offset> from any connection, registered or not, as often as it
\* is sent: "handler.server.numacks += 1".
ReplConfAckAny(r) ==
    /\ numacks < MaxNumAcks
    /\ numacks' = numacks + 1
    /\ UNCHANGED <<writers, wire, task, paused, applied>>
    /\ UNCHANGED <<kvVars, connVars, codecVars, streamVars, saveVars, bootVars>>

NextAcks ==
    \/ \E r \in Replicas :
          ReplConfListen(r) \/ ReplConfListenAgain(r) \/ PSync(r) \/ ReplConfAckAny(r)
    \/ SetBegin("c1", SetOf("c1"))
    \/ WaitBegin("c2", WaitTwo)
SpecAcks == Init /\ [][NextAcks]_vars

\* C31: the count a WAIT returns never exceeds the number of registered
\* replicas.
C31_AckCountBounded ==
    \A c \in Clients : \A n \in 0..MaxNumAcks :
        task[c].reply = IntReply(n) => n <= Cardinality(Range(writers))

\* C32: server.writers holds each replica connection at most once, every
\* propagated command is found at most once in the stream of a replica, and a
\* connection that never registered receives nothing.
C32_ReplicaSetMembership ==
    /\ \A i, j \in 1..Len(writers) : i # j => writers[i] # writers[j]
    /\ \A r \in Replicas : \A i, j \in 1..Len(wire[r]) :
          (i # j /\ wire[r][i].of > 0) => wire[r][i].of # wire[r][j].of
    /\ \A r \in Replicas \ Range(writers) : wire[r] = <<>>

(***************************************************************************)
(* Commands other than GET on a key whose expiry has been reached          *)
(***************************************************************************)
ExpiryKey == <<"x">>
ExpiryCommands ==
    { <<T.SET, ExpiryKey, <<"a">>, T.PX, One>>, <<T.SET, ExpiryKey, Zero, T.PX, One>>,
      <<T.INCR, ExpiryKey>>, <<T.INCRBY, ExpiryKey, One>>, <<T.DECR, ExpiryKey>>,
      <<T.APPEND, ExpiryKey, <<"a">>>>, <<T.LPUSH, ExpiryKey, <<"a">>>>,
      <<T.SADD, ExpiryKey, <<"a">>>>, <<T.HSET, ExpiryKey, <<"f">>, <<"a">>>>,
      <<T.ZADD, ExpiryKey, One, <<"a">>>> }
ExpiryCommand == \E cmd \in ExpiryCommands : Handle(cmd)
NextExpiry == ExpiryCommand \/ Tick
SpecExpiry == Init /\ [][NextExpiry]_vars

AddressesKey(cmd) ==
    /\ Len(cmd) >= 2
    /\ cmd[1] \in {T.INCR, T.INCRBY, T.DECR, T.APPEND, T.LPUSH, T.SADD, T.HSET, T.ZADD}
\* What the command replies and leaves behind when k was never set.
AsAbsent(cmd, k) ==
    Execute(Pop(before.memory, k), Pop(before.expiration, k), before.now, cmd,
            CHOOSE v \in Picks(Pop(before.memory, k), cmd) : TRUE)

\* C33: a command that addresses a key whose expiry has been reached replies
\* what it replies for a key that was never set, leaves the keyspace it would
\* leave then, and raises no exception.
C33_ExpiredIsAbsent ==
    (AddressesKey(request) /\ Has(before.memory, request[2]) /\ ExpiryReached(request[2]))
        => /\ reply # EXCEPTION
           /\ reply = AsAbsent(request, request[2]).reply
           /\ memory = AsAbsent(request, request[2]).memory
           /\ expiration = AsAbsent(request, request[2]).expiration

(***************************************************************************)
(* A server started on a snapshot: AsyncServer.create takes memory and     *)
(* expiration from parse_redis_file, which records the expiry of a pair    *)
(* whatever the type of its value.                                         *)
(***************************************************************************)
\* Keyspaces a snapshot may hold at time 1: a list or a text under x, with or
\* without an expiry that has not passed.
LoadedStores ==
    {[memory |-> (<<"x">> :> v), expiration |-> e] :
        v \in {ListVal(<<<<"a">>>>), ListVal(<<<<"a">>, <<"b">>>>), StrVal(<<"a">>)},
        e \in {EmptyDict, (<<"x">> :> 2), (<<"x">> :> 3)}}
InitLoaded ==
    /\ \E s \in LoadedStores : memory = s.memory /\ expiration = s.expiration
    /\ changes = 0
    /\ now = 1
    /\ request = <<>>
    /\ before = [memory |-> EmptyDict, expiration |-> EmptyDict, now |-> 1]
    /\ reply = NoReply
LoadedCommands ==
    { <<T.LPOP, <<"x">>>>, <<T.RPOP, <<"x">>>>, <<T.LPUSH, <<"x">>, <<"a">>>>,
      <<T.GET, <<"x">>>>, <<T.SET, <<"x">>, <<"a">>>>,
      <<T.SET, <<"x">>, <<"a">>, T.PX, One>> }
LoadedCommand == \E cmd \in LoadedCommands : Handle(cmd)
NextLoaded == LoadedCommand \/ Tick
LoadedInit == InitLoaded /\ InitRepl /\ NoConn /\ NoCodec /\ NoStream /\ NoSave /\ NoBoot
SpecLoaded == LoadedInit /\ [][NextLoaded]_vars

\* C34: every key of the expiration table is a key of the keyspace.
C34_ExpirationConsistency == DOMAIN expiration \subseteq DOMAIN memory

(***************************************************************************)
(* Values that have lost their last element                                *)
(***************************************************************************)
Emptied(v) ==
    CASE v.kind = "list" -> v.val = <<>>
      [] v.kind = "set" -> v.val = {}
      [] v.kind = "dict" -> DOMAIN v.val = {}
      [] v.kind = "zset" -> DOMAIN v.val.scores = {}
      [] OTHER -> FALSE

\* C35: no key of the keyspace maps to an empty list, set, hash or sorted set.
C35_EmptiedDestroyed == \A k \in DOMAIN memory : ~Emptied(memory[k])

(***************************************************************************)
(* LRANGE and ZRANGE against the index rule: both ends inclusive, negative *)
(* indices counted from the tail, the interval cut to the value.           *)
(***************************************************************************)
IndexTexts == {Dec(i) : i \in (0 - 3)..3}
RangeKey == <<"x">>
LRangeCommands ==
    {<<T.RPUSH, RangeKey, v>> : v \in Vals}
    \cup {<<T.LPOP, RangeKey>>}
    \cup {<<T.LRANGE, RangeKey, s, e>> : s \in IndexTexts, e \in IndexTexts}
LRangeRequest == \E cmd \in LRangeCommands : Handle(cmd)
NextLRange == LRangeRequest
SpecLRange == Init /\ [][NextLRange]_vars

\* The elements of `values` the rule selects for the indices start and stop.
Selected(values, start, stop) ==
    LET n == Len(values)
        s == IF start < 0 THEN start + n ELSE start
        e == IF stop < 0 THEN stop + n ELSE stop
    IN IF s > e \/ s >= n \/ e < 0 THEN <<>>
       ELSE SubSeq(values, (IF s < 0 THEN 0 ELSE s) + 1, (IF e > n - 1 THEN n - 1 ELSE e) + 1)
BulkArray(items) ==
    IF items = <<>> THEN EMPTY_ARRAY_RESPONSE
    ELSE <<"*">> \o Dec(Len(items)) \o CRLF \o Flatten([i \in 1..Len(items) |-> Bulk(items[i])])

\* C36: LRANGE key start stop replies exactly the elements the rule selects,
\* and the empty array when it selects none.
C36_LRangeReference ==
    (Len(request) = 4 /\ request[1] = T.LRANGE)
        => reply = BulkArray(Selected(get_list_from_memory(before.memory, request[2]),
                                      IntOf(request[3]), IntOf(request[4])))

ZRangeCommands ==
    {<<T.ZADD, RangeKey, Zero, <<"a">>>>, <<T.ZADD, RangeKey, One, <<"b">>>>}
    \cup {<<T.ZREM, RangeKey, m>> : m \in {<<"a">>, <<"b">>}}
    \cup {<<T.ZRANGE, RangeKey, s, e>> : s \in IndexTexts, e \in IndexTexts}
ZRangeRequest == \E cmd \in ZRangeCommands : Handle(cmd)
NextZRange == ZRangeRequest
SpecZRange == Init /\ [][NextZRange]_vars

\* The members of a sorted set in rank order.
Ranked(z) == [i \in 1..Len(z.data.list) |-> z.data.list[i][2]]

\* C37: ZRANGE key start stop replies the members at the ranks the rule
\* selects, in ascending rank order, each at most once, and the empty array
\* when it selects none.
C37_ZRangeReference ==
    (Len(request) = 4 /\ request[1] = T.ZRANGE)
        => reply = BulkArray(Selected(Ranked(get_sorted_set_from_memory(before.memory, request[2])),
                                      IntOf(request[3]), IntOf(request[4])))

(***************************************************************************)
(* The expiry records of a snapshot file                                   *)
(***************************************************************************)
\* The two stated forms of an expires-at given in milliseconds: 0xFD and the
\* seconds in four bytes, 0xFC and the milliseconds in eight bytes.
StatedExpiry(ms) ==
    { <<253>> \o pack_I(LenOf(ms \div 1000)),
      <<252>> \o pack_I(LenOf(ms)) \o <<0, 0, 0, 0>> }
StatedRecords(item) ==
    IF item[3] = 0 THEN {encode_key_value_pair(item[1], item[2])}
    ELSE {p \o encode_key_value_pair(item[1], item[2]) : p \in StatedExpiry(item[3])}
RECURSIVE StatedBodies(_)
StatedBodies(d) ==
    IF d = <<>> THEN {<<>>}
    ELSE {r \o b : r \in StatedRecords(Head(d)), b \in StatedBodies(Tail(d))}
\* What write_redis_file puts before the first pair.
SnapHeader(d) ==
    REDIS_MAGIC \o RDB_VERSION_CURRENT
        \o <<RDB_OPCODE_SELECTDB, 0, RDB_OPCODE_RESIZEDB>>
        \o encode_length(LenOf(Len(d))).bytes
        \o encode_length(LenOf(Cardinality(DOMAIN SnapExpires(d)))).bytes

\* C38: in a written snapshot every key with an expiration is preceded by
\* 0xFD and its expires-at in seconds (4 bytes, little-endian) or by 0xFC and
\* its expires-at in milliseconds (8 bytes, little-endian).
C38_ExpiryOpcodes ==
    rdbFile.state = "written"
        => \E b \in StatedBodies(rdbIn) :
              rdbFile.bytes = SnapHeader(rdbIn) \o b \o <<RDB_OPCODE_EOF>>

\* The members of the set stored at k, none when k holds no set.
StoredSet(mem, k) == IF Has(mem, k) /\ mem[k].kind = "set" THEN mem[k].val ELSE {}

\* C39: after SMOVE src dst m has replied :1, m is no member of src and is a
\* member of the set stored at dst; after :0 or WRONGTYPE the keyspace is as
\* it was.
C39_SMoveConserves ==
    (Len(request) = 4 /\ request[1] = T.SMOVE)
        => /\ reply = IntReply(1)
                => /\ request[4] \notin StoredSet(memory, request[2])
                   /\ request[4] \in StoredSet(memory, request[3])
           /\ reply \in {IntReply(0), WRONG_TYPE_RESPONSE} => memory = before.memory

(***************************************************************************)
(* Changes made while a background save runs                               *)
(***************************************************************************)
\* The keys bound to a text that the written snapshot does not hold.  A text
\* is bound by SET alone, which registers a change, and the worker's copy was
\* taken before the write: such a key was SET after the copy.
SetSinceCopy ==
    {k \in DOMAIN memory :
        /\ memory[k].kind = "str"
        /\ \/ ~Has(autosave.written.memory, k)
           \/ autosave.written.memory[k] # memory[k]}
SaveInProgress == autosave.pc \in {"created", "queued", "writing", "written"}

\* C40: no background save is created while one is in progress, and when a
\* save completes successfully a change that its snapshot does not hold is
\* still counted by the dirty counter.
C40_NoLostChanges ==
    [][ /\ (SaveInProgress /\ autosave'.pc = "created")
             => (autosave.pc = "created" /\ autosave'.seen = autosave.seen)
        /\ (/\ autosave.pc = "written" /\ autosave'.pc = "done" /\ autosave.success
            /\ SetSinceCopy # {})
             => changes' >= 1 ]_vars

====
